---- MODULE Spec2Model ----
(***************************************************************************)
(* A model of src/main.py: the configuration registries (BotConfig), the  *)
(* owner's administrative commands, and universal_message_handler, the    *)
(* gate that authorizes a trigger message and the send loop behind it.    *)
(*                                                                         *)
(* Python values are modelled as follows.                                  *)
(*   str            a sequence of one-character strings (<<"/","s">>); a   *)
(*                  secret code is one opaque symbol (<<"T1">>)            *)
(*   Optional[int]  a sequence of length at most one (None is <<>>)        *)
(*   list           a sequence; dict: a function on the set of its keys    *)
(***************************************************************************)
EXTENDS Integers, Sequences, FiniteSets, TLC

VARIABLES config, current_spam_command, reply, task, pool_in, pool_out

vars == <<config, current_spam_command, reply, task, pool_in, pool_out>>

-----------------------------------------------------------------------------
(* Bounds of the model *)

\* accounts are 1..MaxUser
MaxUser == 2
\* secret codes that secrets.token_urlsafe can return
NumTokens == 2
\* largest in-range quantity a trigger message asks for
MaxQty == 2
\* templates that the configured list of a gate run is drawn from
NumTemplates == 2
\* longest FloodWait the platform signals
MaxFlood == 1
\* quantities and template counts of the stand-alone pool construction
MaxPoolQty == 6
MaxPoolTemplates == 3

(* Program constants *)

OWNER_ID == 1
WarnDelay == 20
MinQuantity == 1
MaxQuantity == 100

Accounts == 1..MaxUser

TokenNames == <<"T1", "T2", "T3", "T4">>
Tokens == {<<TokenNames[i]>> : i \in 1..NumTokens}

GroupIds == {101, 102}

None == <<>>
Some(v) == <<v>>
Option(S) == {None} \cup {Some(v) : v \in S}

Range(s) == {s[i] : i \in DOMAIN s}

\* Python truthiness of an Optional[int]: None and 0 are both false
Truthy(opt) == opt # None /\ opt[1] # 0

-----------------------------------------------------------------------------
(* Strings *)

Digits == <<"0", "1", "2", "3", "4", "5", "6", "7", "8", "9">>

IsDigitChar(c) == \E k \in 1..10 : Digits[k] = c

DigitVal(c) == (CHOOSE k \in 1..10 : Digits[k] = c) - 1

\* str.isdigit()
isdigit(w) == w # <<>> /\ \A i \in DOMAIN w : IsDigitChar(w[i])

RECURSIVE DecVal(_, _)
DecVal(w, acc) ==
    IF w = <<>> THEN acc ELSE DecVal(Tail(w), 10 * acc + DigitVal(Head(w)))

\* int(str) of a word without whitespace: an optional sign and decimal digits,
\* anything else raises ValueError (ok = FALSE)
ParseInt(w) ==
    IF isdigit(w) THEN [ok |-> TRUE, val |-> DecVal(w, 0)]
    ELSE IF w # <<>> /\ w[1] = "-" /\ isdigit(Tail(w))
         THEN [ok |-> TRUE, val |-> 0 - DecVal(Tail(w), 0)]
    ELSE IF w # <<>> /\ w[1] = "+" /\ isdigit(Tail(w))
         THEN [ok |-> TRUE, val |-> DecVal(Tail(w), 0)]
    ELSE [ok |-> FALSE, val |-> 0]

\* the decimal text of a natural number
RECURSIVE IntToWord(_)
IntToWord(n) ==
    IF n < 10 THEN <<Digits[n + 1]>>
    ELSE Append(IntToWord(n \div 10), Digits[(n % 10) + 1])

\* str.startswith
StartsWith(text, p) == Len(p) <= Len(text) /\ SubSeq(text, 1, Len(p)) = p

\* str.lstrip(ch)
RECURSIVE LStrip(_, _)
LStrip(s, ch) == IF s # <<>> /\ Head(s) = ch THEN LStrip(Tail(s), ch) ELSE s

\* str.split(): the maximal runs of non-blank characters
RECURSIVE SplitAcc(_, _, _)
SplitAcc(text, cur, acc) ==
    IF text = <<>> THEN (IF cur = <<>> THEN acc ELSE Append(acc, cur))
    ELSE IF Head(text) = " "
         THEN SplitAcc(Tail(text), <<>>, IF cur = <<>> THEN acc ELSE Append(acc, cur))
    ELSE SplitAcc(Tail(text), Append(cur, Head(text)), acc)

Split(text) == SplitAcc(text, <<>>, <<>>)

\* " ".join(words)
RECURSIVE Join(_)
Join(words) ==
    IF words = <<>> THEN <<>>
    ELSE IF Len(words) = 1 THEN words[1]
    ELSE words[1] \o <<" ">> \o Join(Tail(words))

-----------------------------------------------------------------------------
(* BotConfig *)

DefaultMessage == <<"Hello ", "{mention}", "! Welcome to the group!">>

\* the default template and texts given to /addmsg
AllTemplates ==
    <<DefaultMessage,
      <<"Hi ", "{mention}", "!">>,
      <<"Yo ", "{mention}">>,
      <<"Bye ", "{mention}">>,
      <<"Hey ", "{mention}", "?">>>>

\* a text /addmsg accepts and str.format(mention=...) cannot fill
BadTemplate == <<"Hey ", "{name}">>

EmptyDict == [k \in {} |-> 0]

DEFAULT_CONFIG ==
    [authorized_users |-> <<>>,
     authorized_chats |-> <<>>,
     spam_command |-> <<"/", "s">>,
     spam_messages |-> <<DefaultMessage>>,
     owner_id |-> OWNER_ID,
     user_secret_codes |-> EmptyDict]

\* list.remove(x): drops the first occurrence
RECURSIVE ListRemove(_, _)
ListRemove(s, x) ==
    IF s = <<>> THEN <<>>
    ELSE IF Head(s) = x THEN Tail(s)
    ELSE <<Head(s)>> \o ListRemove(Tail(s), x)

\* a dict with key k bound to v, and a dict without key k
DictSet(d, k, v) == [x \in DOMAIN d \cup {k} |-> IF x = k THEN v ELSE d[x]]
DictDel(d, k) == [x \in DOMAIN d \ {k} |-> d[x]]

BotConfigInit_NoOwnerAppend(loaded) == loaded

\* __init__: the owner is appended to the loaded list when missing
BotConfigInit(loaded) ==
    IF loaded.owner_id \notin Range(loaded.authorized_users)
    THEN [loaded EXCEPT !.authorized_users = Append(@, loaded.owner_id)]
    ELSE loaded

add_authorized_chat_Overwrites(cfg, chat_id) ==
    IF chat_id \notin Range(cfg.authorized_chats)
    THEN [cfg EXCEPT !.authorized_chats = <<chat_id>>]
    ELSE cfg

add_authorized_chat_Unchecked(cfg, chat_id) ==
    [cfg EXCEPT !.authorized_chats = Append(@, chat_id)]

add_authorized_chat(cfg, chat_id) ==
    IF chat_id \notin Range(cfg.authorized_chats)
    THEN [cfg EXCEPT !.authorized_chats = Append(@, chat_id)]
    ELSE cfg

remove_authorized_chat(cfg, chat_id) ==
    IF chat_id \in Range(cfg.authorized_chats)
    THEN [cfg EXCEPT !.authorized_chats = ListRemove(@, chat_id)]
    ELSE cfg

add_authorized_user(cfg, user_id) ==
    IF user_id \notin Range(cfg.authorized_users) /\ user_id # cfg.owner_id
    THEN [cfg EXCEPT !.authorized_users = Append(@, user_id)]
    ELSE cfg

\* a removal that also drops the codes bound to the removed account
remove_authorized_user_DropsCodes(cfg, user_id) ==
    IF user_id \in Range(cfg.authorized_users) /\ user_id # cfg.owner_id
    THEN [cfg EXCEPT !.authorized_users = ListRemove(@, user_id),
                     !.user_secret_codes =
                        [c \in {d \in DOMAIN @ : @[d] # user_id} |-> @[c]]]
    ELSE cfg

remove_authorized_user(cfg, user_id) ==
    IF user_id \in Range(cfg.authorized_users) /\ user_id # cfg.owner_id
    THEN [cfg EXCEPT !.authorized_users = ListRemove(@, user_id)]
    ELSE cfg

\* the codes secrets.token_urlsafe may end the retry loop with: the first
\* draw that is not a key of the table
FreshCodes_NoRetry(cfg) == Tokens

FreshCodes(cfg) == Tokens \ DOMAIN cfg.user_secret_codes

\* generate_secret_code, given the code the loop ended with
generate_secret_code(cfg, user_id, code) ==
    [cfg EXCEPT !.user_secret_codes = DictSet(@, code, user_id)]

get_user_id_from_code(cfg, code) ==
    IF code \in DOMAIN cfg.user_secret_codes
    THEN Some(cfg.user_secret_codes[code])
    ELSE None

revoke_secret_code_OfAccount(cfg, code) ==
    IF code \in DOMAIN cfg.user_secret_codes
    THEN [cfg |-> [cfg EXCEPT !.user_secret_codes =
                        [c \in {d \in DOMAIN @ : @[d] # @[code]} |-> @[c]]],
          ret |-> TRUE]
    ELSE [cfg |-> cfg, ret |-> FALSE]

\* revoke_secret_code: the new configuration and the returned bool
revoke_secret_code(cfg, code) ==
    IF code \in DOMAIN cfg.user_secret_codes
    THEN [cfg |-> [cfg EXCEPT !.user_secret_codes = DictDel(@, code)], ret |-> TRUE]
    ELSE [cfg |-> cfg, ret |-> FALSE]

is_authorized(cfg, user_id) == user_id \in Range(cfg.authorized_users)

is_owner_Anyone(cfg, user_id) == user_id \in {cfg.owner_id, user_id}

is_owner(cfg, user_id) == user_id = cfg.owner_id

is_chat_authorized(cfg, chat_id) == chat_id \in Range(cfg.authorized_chats)

-----------------------------------------------------------------------------
(* Identity resolution *)

\* what app.get_users / app.get_chat answers for a handle: an id, one of the
\* three not-found errors, or any other error
Lookups(ids) ==
    {[kind |-> "found", id |-> u] : u \in ids}
        \cup {[kind |-> "notfound", id |-> 0], [kind |-> "error", id |-> 0]}

IsNumeric(input) ==
    isdigit(input) \/ (StartsWith(input, <<"-">>) /\ isdigit(Tail(input)))

\* resolve_user_id and resolve_chat_id, given the platform's answer
resolve_id(input, lookup) ==
    IF IsNumeric(input) THEN Some(ParseInt(input).val)
    ELSE IF lookup.kind = "found" THEN Some(lookup.id)
    ELSE None

\* a numeric input is answered without asking the platform
LookupsFor(input, ids) ==
    IF IsNumeric(input) THEN {[kind |-> "notfound", id |-> 0]} ELSE Lookups(ids)

-----------------------------------------------------------------------------
(* The owner's commands, sent in a private chat.  A command definition is the  *)
(* handler from the return of its identity lookup to its reply_text call: the  *)
(* registry is read and written between these two suspension points, in one    *)
(* step.  reply is the text the handler answers with; the caller says which    *)
(* run of a handler, if any, the step belongs to.                              *)

\* message.reply_text: the reply goes to the chat of the command's sender
Reply(to, kind, id, code) == [to |-> to, kind |-> kind, id |-> id, code |-> code]

NoReply == Reply(0, "none", 0, <<>>)

\* the first argument of a command: absent, a numeric id, or a handle; a code
IdArgs(ids) == {None} \cup {Some(IntToWord(u)) : u \in ids \cup {0}} \cup {Some(<<"@", "u">>)}

add_user_command(sender, arg, lookup) ==
    LET user_id == resolve_id(arg[1], lookup) IN
    /\ UNCHANGED <<current_spam_command, pool_in, pool_out>>
    /\ IF ~is_owner(config, sender)
       THEN reply' = Reply(sender, "owner_only", 0, <<>>) /\ UNCHANGED config
       ELSE IF arg = None
       THEN reply' = Reply(sender, "usage", 0, <<>>) /\ UNCHANGED config
       ELSE IF ~Truthy(user_id)
       THEN reply' = Reply(sender, "invalid_user", 0, <<>>) /\ UNCHANGED config
       ELSE IF user_id[1] = config.owner_id
       THEN reply' = Reply(sender, "owner_default", 0, <<>>) /\ UNCHANGED config
       ELSE /\ config' = add_authorized_user(config, user_id[1])
            /\ reply' = Reply(sender, "authorized", user_id[1], <<>>)

remove_user_command(sender, arg, lookup) ==
    LET user_id == resolve_id(arg[1], lookup) IN
    /\ UNCHANGED <<current_spam_command, pool_in, pool_out>>
    /\ IF ~is_owner(config, sender)
       THEN reply' = Reply(sender, "owner_only", 0, <<>>) /\ UNCHANGED config
       ELSE IF arg = None
       THEN reply' = Reply(sender, "usage", 0, <<>>) /\ UNCHANGED config
       ELSE IF ~Truthy(user_id)
       THEN reply' = Reply(sender, "invalid_user", 0, <<>>) /\ UNCHANGED config
       ELSE IF user_id[1] = config.owner_id
       THEN reply' = Reply(sender, "cannot_remove_owner", 0, <<>>) /\ UNCHANGED config
       ELSE IF user_id[1] \notin Range(config.authorized_users)
       THEN reply' = Reply(sender, "not_in_list", 0, <<>>) /\ UNCHANGED config
       ELSE /\ config' = remove_authorized_user(config, user_id[1])
            /\ reply' = Reply(sender, "removed", user_id[1], <<>>)

generate_secret_command(sender, arg, lookup) ==
    LET user_id == resolve_id(arg[1], lookup) IN
    /\ UNCHANGED <<current_spam_command, pool_in, pool_out>>
    /\ IF ~is_owner(config, sender)
       THEN reply' = Reply(sender, "owner_only", 0, <<>>) /\ UNCHANGED config
       ELSE IF arg = None
       THEN reply' = Reply(sender, "usage", 0, <<>>) /\ UNCHANGED config
       ELSE IF ~Truthy(user_id)
       THEN reply' = Reply(sender, "invalid_user", 0, <<>>) /\ UNCHANGED config
       ELSE IF user_id[1] \notin Range(config.authorized_users)
       THEN reply' = Reply(sender, "not_authorized", user_id[1], <<>>) /\ UNCHANGED config
       ELSE \E code \in FreshCodes(config) :
               /\ config' = generate_secret_code(config, user_id[1], code)
               /\ reply' = Reply(sender, "generated", user_id[1], code)

revoke_secret_command(sender, arg) ==
    LET r == revoke_secret_code(config, arg[1]) IN
    /\ UNCHANGED <<current_spam_command, pool_in, pool_out>>
    /\ IF ~is_owner(config, sender)
       THEN reply' = Reply(sender, "owner_only", 0, <<>>) /\ UNCHANGED config
       ELSE IF arg = None
       THEN reply' = Reply(sender, "usage", 0, <<>>) /\ UNCHANGED config
       ELSE IF r.ret
       THEN config' = r.cfg /\ reply' = Reply(sender, "revoked", 0, arg[1])
       ELSE config' = r.cfg /\ reply' = Reply(sender, "code_not_found", 0, arg[1])

add_chat_command(sender, arg, lookup) ==
    LET chat_id == resolve_id(arg[1], lookup) IN
    /\ UNCHANGED <<current_spam_command, pool_in, pool_out>>
    /\ IF ~is_owner(config, sender)
       THEN reply' = Reply(sender, "owner_only", 0, <<>>) /\ UNCHANGED config
       ELSE IF arg = None
       THEN reply' = Reply(sender, "usage", 0, <<>>) /\ UNCHANGED config
       ELSE IF ~Truthy(chat_id)
       THEN reply' = Reply(sender, "invalid_chat", 0, <<>>) /\ UNCHANGED config
       ELSE IF chat_id[1] \in Range(config.authorized_chats)
       THEN reply' = Reply(sender, "chat_already", 0, <<>>) /\ UNCHANGED config
       ELSE /\ config' = add_authorized_chat(config, chat_id[1])
            /\ reply' = Reply(sender, "chat_authorized", chat_id[1], <<>>)

remove_chat_command(sender, arg, lookup) ==
    LET chat_id == resolve_id(arg[1], lookup) IN
    /\ UNCHANGED <<current_spam_command, pool_in, pool_out>>
    /\ IF ~is_owner(config, sender)
       THEN reply' = Reply(sender, "owner_only", 0, <<>>) /\ UNCHANGED config
       ELSE IF arg = None
       THEN reply' = Reply(sender, "usage", 0, <<>>) /\ UNCHANGED config
       ELSE IF ~Truthy(chat_id)
       THEN reply' = Reply(sender, "invalid_chat", 0, <<>>) /\ UNCHANGED config
       ELSE IF chat_id[1] \notin Range(config.authorized_chats)
       THEN reply' = Reply(sender, "chat_not_in_list", 0, <<>>) /\ UNCHANGED config
       ELSE /\ config' = remove_authorized_chat(config, chat_id[1])
            /\ reply' = Reply(sender, "chat_removed", chat_id[1], <<>>)

\* the argument of /revokesecret: absent or a code
CodeArgs == Option(Tokens)

-----------------------------------------------------------------------------
(* One run of universal_message_handler *)

Tasks == {"h1", "h2"}

NoMessage == [text |-> <<>>, chat |-> [id |-> 0, type |-> "none"], from_user |-> None]

IdleTask ==
    [pc |-> "idle", msg |-> NoMessage, outcome |-> "none",
     code_uid |-> None, quantity |-> 0, target_id |-> 0,
     pool |-> <<>>, i |-> 0, success_count |-> 0, timer |-> 0,
     abort |-> "none",
     trig |-> "none", del_calls |-> 0, pm_replies |-> 0,
     warn |-> "none", warn_posts |-> 0, warn_del_calls |-> 0, warn_age |-> 0,
     sent |-> <<>>, attempts |-> 0, tried |-> <<>>,
     role |-> "none", flood_wait |-> 0, flood_age |-> 0, send_errors |-> 0,
     answer |-> NoReply]

-----------------------------------------------------------------------------
(* The message pool (universal_message_handler, "SEND SPAM MESSAGES") *)

Shuffles_WithReplacement(messages) ==
    [1..Len(messages) -> Range(messages)]

\* random.sample(messages, len(messages)): the list in any order
Shuffles(messages) ==
    {[k \in 1..Len(messages) |-> messages[f[k]]] : f \in Permutations(1..Len(messages))}

Truncate_None(pool, quantity) == pool

\* message_pool[:quantity]
Truncate(pool, quantity) ==
    SubSeq(pool, 1, IF Len(pool) < quantity THEN Len(pool) ELSE quantity)

\* the loop over range(quantity) from index i on, and the truncation after it:
\* every pool it can end with
RECURSIVE PoolsFrom(_, _, _, _)
PoolsFrom(messages, quantity, i, message_pool) ==
    IF i >= quantity THEN {Truncate(message_pool, quantity)}
    ELSE IF i % Len(messages) = 0
    THEN UNION {PoolsFrom(messages, quantity, i + 1, message_pool \o shuffled) :
                    shuffled \in Shuffles(messages)}
    ELSE PoolsFrom(messages, quantity, i + 1, message_pool)

MessagePools(messages, quantity) == PoolsFrom(messages, quantity, 0, <<>>)

\* the pool built on its own, for a list of distinct templates and a quantity
PoolInputs ==
    {[messages |-> SubSeq(AllTemplates, 1, n), quantity |-> q] :
        n \in 1..MaxPoolTemplates, q \in MinQuantity..MaxPoolQty}

InitPool ==
    /\ config = BotConfigInit(DEFAULT_CONFIG)
    /\ current_spam_command = config.spam_command
    /\ reply = NoReply
    /\ task = [t \in Tasks |-> IdleTask]
    /\ pool_in \in PoolInputs
    /\ pool_out = None

BuildPool ==
    /\ pool_out = None
    /\ \E p \in MessagePools(pool_in.messages, pool_in.quantity) : pool_out' = Some(p)
    /\ UNCHANGED <<config, current_spam_command, reply, task, pool_in>>

NextPool == BuildPool

SpecPool == InitPool /\ [][NextPool]_vars

\* C3: the pool has exactly quantity entries, and each block of n entries that
\* starts at a multiple of n and lies within the pool holds every one of the n
\* templates exactly once.
C3_PoolRotation ==
    pool_out # None =>
        LET pool == pool_out[1]
            n == Len(pool_in.messages)
            q == pool_in.quantity
        IN /\ Len(pool) = q
           /\ \A b \in 0..(q \div n) :
                (b * n + n <= q) =>
                    \A m \in Range(pool_in.messages) :
                        Cardinality({k \in 1..n : pool[b * n + k] = m}) = 1

\* two full blocks in different orders, followed by a partial block
C3_Witness ==
    /\ pool_out # None
    /\ Len(pool_in.messages) = 2
    /\ pool_in.quantity = 5
    /\ Len(pool_out[1]) = 5
    /\ pool_out[1][1] # pool_out[1][3]

-----------------------------------------------------------------------------
(* The registries under the owner's commands *)

\* who sends a command: the owner or another account (is_owner tells no more
\* than that apart)
Senders == {OWNER_ID, OWNER_ID + 1}

\* the accounts and the chats a handle resolves to
HandleUsers == {OWNER_ID, OWNER_ID + 1}

HandleChats == {CHOOSE c \in GroupIds : \A d \in GroupIds : c <= d}

\* config.json as a first start or an earlier run left it
LoadedConfigs ==
    {[DEFAULT_CONFIG EXCEPT !.authorized_users = us] :
        us \in {<<>>} \cup {<<u>> : u \in Accounts}}

InitRegistry ==
    /\ \E loaded \in LoadedConfigs : config = BotConfigInit(loaded)
    /\ current_spam_command = config.spam_command
    /\ reply = NoReply
    /\ task = [t \in Tasks |-> IdleTask]
    /\ pool_in = [messages |-> <<>>, quantity |-> 0]
    /\ pool_out = None

AddUser ==
    /\ UNCHANGED task
    /\ \E sender \in Senders, arg \in IdArgs(Accounts) :
           \E lookup \in LookupsFor(IF arg = None THEN <<>> ELSE arg[1], HandleUsers) :
               add_user_command(sender, arg, lookup)

RemoveUser ==
    /\ UNCHANGED task
    /\ \E sender \in Senders, arg \in IdArgs(Accounts) :
           \E lookup \in LookupsFor(IF arg = None THEN <<>> ELSE arg[1], HandleUsers) :
               remove_user_command(sender, arg, lookup)

GenerateSecret ==
    /\ UNCHANGED task
    /\ \E sender \in Senders, arg \in IdArgs(Accounts) :
           \E lookup \in LookupsFor(IF arg = None THEN <<>> ELSE arg[1], HandleUsers) :
               generate_secret_command(sender, arg, lookup)

RevokeSecret ==
    /\ UNCHANGED task
    /\ \E sender \in Senders, arg \in CodeArgs : revoke_secret_command(sender, arg)

AddChat ==
    /\ UNCHANGED task
    /\ \E sender \in Senders, arg \in IdArgs(GroupIds) :
           \E lookup \in LookupsFor(IF arg = None THEN <<>> ELSE arg[1], HandleChats) :
               add_chat_command(sender, arg, lookup)

RemoveChat ==
    /\ UNCHANGED task
    /\ \E sender \in Senders, arg \in IdArgs(GroupIds) :
           \E lookup \in LookupsFor(IF arg = None THEN <<>> ELSE arg[1], HandleChats) :
               remove_chat_command(sender, arg, lookup)

NextRegistry ==
    \/ AddUser
    \/ RemoveUser
    \/ GenerateSecret
    \/ RevokeSecret
    \/ AddChat
    \/ RemoveChat

SpecRegistry == InitRegistry /\ [][NextRegistry]_vars

-----------------------------------------------------------------------------
(* Claims about the registries *)

\* C1: a code that generate_secret_code returned resolves to the account it was
\* issued for, a code in the table keeps resolving to the same account across
\* every command that does not revoke it, and a revoked code resolves to None.
C1_IssueResolveRevoke ==
    [][/\ reply'.kind = "generated"
            => get_user_id_from_code(config', reply'.code) = Some(reply'.id)
       /\ \A c \in DOMAIN config.user_secret_codes :
            ~(reply'.kind = "revoked" /\ reply'.code = c)
                => get_user_id_from_code(config', c) = get_user_id_from_code(config, c)
       /\ reply'.kind = "revoked"
            => get_user_id_from_code(config', reply'.code) = None]_vars

\* a code was revoked while another code stays bound
C1_Witness ==
    /\ reply.kind = "revoked"
    /\ get_user_id_from_code(config, reply.code) = None
    /\ \E c \in Tokens : Truthy(get_user_id_from_code(config, c))

\* C2: the owner is in authorized_users in every reachable state.
C2_OwnerAuthorized == is_authorized(config, config.owner_id)

\* the owner asked to remove the owner, who was loaded from a list without them
C2_Witness ==
    /\ reply.kind = "cannot_remove_owner"
    /\ Len(config.authorized_users) >= 2
    /\ config.authorized_users[Len(config.authorized_users)] = config.owner_id

-----------------------------------------------------------------------------
(* universal_message_handler: the gate *)

TriggerMatch_AnySlash(text, cmd) ==
    StartsWith(text, <<"/">>) \/ StartsWith(text, LStrip(cmd, "/"))

\* a match that compares the whole first word with the command
TriggerMatch_WholeWord(text, cmd) ==
    LET spam_cmd == LStrip(cmd, "/")
        parts == Split(text)
    IN parts # <<>> /\ parts[1] \in {<<"/">> \o spam_cmd, spam_cmd}

\* the text starts with the command, with or without its leading "/"
TriggerMatch(text, cmd) ==
    LET spam_cmd == LStrip(cmd, "/")
    IN StartsWith(text, <<"/">> \o spam_cmd) \/ StartsWith(text, spam_cmd)

IsPrivate_Never(m) == FALSE

IsPrivate(m) == m.chat.type = "private"

ChatAllowed_Always(cfg, m) == TRUE

\* the chat check of a message that is not in a private chat
ChatAllowed(cfg, m) == is_chat_authorized(cfg, m.chat.id)

SenderMatches_Always(m, uid) == TRUE

SenderMatches_Identified(m, uid) == m.from_user # None /\ m.from_user[1] = uid

\* an identifiable sender must be the account the code is bound to
SenderMatches(m, uid) == m.from_user = None \/ m.from_user[1] = uid

TooShort_NotFour(parts) == Len(parts) # 4

\* the parse check: fewer than 4 fields
TooShort(parts) == Len(parts) < 4

AccountAllowed_Always(cfg, uid) == TRUE

\* the final check: the account the code is bound to is authorized now
AccountAllowed(cfg, uid) == is_authorized(cfg, uid)

GateDecision_AccountFirst(cfg, cmd, m) ==
    LET parts == Split(m.text)
        code_uid == get_user_id_from_code(cfg, parts[2])
        D(pc, outcome, uid) == [pc |-> pc, outcome |-> outcome, code_uid |-> uid]
    IN IF m.text = <<>> THEN D("done", "ignored", None)
       ELSE IF ~TriggerMatch(m.text, cmd) THEN D("done", "ignored", None)
       ELSE IF ~IsPrivate(m) /\ ~ChatAllowed(cfg, m)
       THEN D("del_chat", "chat_unauthorized", None)
       ELSE IF IsPrivate(m) THEN D("pm_reply", "private", None)
       ELSE IF TooShort(parts) THEN D("del_short", "incomplete", None)
       ELSE IF ~Truthy(code_uid) THEN D("del_code", "invalid_code", code_uid)
       ELSE IF ~AccountAllowed(cfg, code_uid[1])
       THEN D("del_unauth", "unauthorized", code_uid)
       ELSE IF ~SenderMatches(m, code_uid[1]) THEN D("del_mismatch", "mismatch", code_uid)
       ELSE D("del_accept", "accepted", code_uid)

\* the handler from its entry to its first platform call: where it suspends
\* (pc), the branch it took (outcome) and the account its code resolved to
GateDecision(cfg, cmd, m) ==
    LET parts == Split(m.text)
        code_uid == get_user_id_from_code(cfg, parts[2])
        D(pc, outcome, uid) == [pc |-> pc, outcome |-> outcome, code_uid |-> uid]
    IN IF m.text = <<>> THEN D("done", "ignored", None)
       ELSE IF ~TriggerMatch(m.text, cmd) THEN D("done", "ignored", None)
       ELSE IF ~IsPrivate(m) /\ ~ChatAllowed(cfg, m)
       THEN D("del_chat", "chat_unauthorized", None)
       ELSE IF IsPrivate(m) THEN D("pm_reply", "private", None)
       ELSE IF TooShort(parts) THEN D("del_short", "incomplete", None)
       ELSE IF ~Truthy(code_uid) THEN D("del_code", "invalid_code", code_uid)
       ELSE IF ~SenderMatches(m, code_uid[1]) THEN D("del_mismatch", "mismatch", code_uid)
       ELSE IF ~AccountAllowed(cfg, code_uid[1])
       THEN D("del_unauth", "unauthorized", code_uid)
       ELSE D("del_accept", "accepted", code_uid)

\* a message arrives and the handler runs to its first platform call
Gate(t, inbox) ==
    /\ task[t].pc = "idle"
    /\ \E m \in inbox :
        LET d == GateDecision(config, current_spam_command, m)
        IN task' = [task EXCEPT ![t] =
                   [IdleTask EXCEPT !.pc = d.pc, !.msg = m, !.outcome = d.outcome,
                                    !.code_uid = d.code_uid, !.trig = "present"]]
    /\ UNCHANGED <<config, current_spam_command, reply, pool_in, pool_out>>

-----------------------------------------------------------------------------
(* universal_message_handler: after the gate *)

\* client.delete_messages: done, MessageDeleteForbidden, or another error
DeleteResults == {"ok", "forbidden", "error"}

ParseInt_DefaultOne(w) ==
    IF isdigit(w) THEN [ok |-> TRUE, val |-> DecVal(w, 0)]
    ELSE [ok |-> TRUE, val |-> 1]

\* int(quantity_input)
ParseQuantity(w) == ParseInt(w)

QuantityInRange(q) == ~(q < MinQuantity \/ q > MaxQuantity)

\* str.format(mention=mention) of a template: a placeholder other than
\* {mention} raises KeyError
Placeholders == {"{mention}", "{name}"}

Formattable(tpl) == \A k \in DOMAIN tpl : tpl[k] \in Placeholders => tpl[k] = "{mention}"

Format(tpl, mention) == [k \in DOMAIN tpl |-> IF tpl[k] = "{mention}" THEN mention ELSE tpl[k]]

\* the mention built from the target's profile
Mention == "<a>target</a>"

\* the loop from pool item j on, up to its next send_message call: an item
\* whose format raises is skipped by "except Exception: continue"
RECURSIVE NextSend(_, _)
NextSend(pool, j) ==
    IF j > Len(pool) THEN j
    ELSE IF Formattable(pool[j]) THEN j
    ELSE NextSend(pool, j + 1)

\* the task record once the loop stands at item j: suspended in send_message,
\* or past the loop
AtItem(x, j) ==
    LET n == NextSend(x.pool, j)
    IN IF n > Len(x.pool) THEN [x EXCEPT !.pc = "done", !.i = n]
       ELSE [x EXCEPT !.pc = "send", !.i = n]

AfterAcceptDelete_ZeroTarget(x) ==
    LET parts == Split(x.msg.text)
        target_input == parts[3]
        q == ParseQuantity(parts[4])
        target == resolve_id(target_input, [kind |-> "notfound", id |-> 0])
    IN IF ~q.ok THEN [x EXCEPT !.pc = "done", !.abort = "quantity_format"]
       ELSE IF ~QuantityInRange(q.val) THEN [x EXCEPT !.pc = "done", !.abort = "quantity_range"]
       ELSE IF ~IsNumeric(target_input) THEN [x EXCEPT !.pc = "resolve", !.quantity = q.val]
       ELSE [x EXCEPT !.pc = "get_users", !.quantity = q.val, !.target_id = target[1]]

\* quantity validation and the synchronous part of resolve_user_id
AfterAcceptDelete(x) ==
    LET parts == Split(x.msg.text)
        target_input == parts[3]
        q == ParseQuantity(parts[4])
        target == resolve_id(target_input, [kind |-> "notfound", id |-> 0])
    IN IF ~q.ok THEN [x EXCEPT !.pc = "done", !.abort = "quantity_format"]
       ELSE IF ~QuantityInRange(q.val) THEN [x EXCEPT !.pc = "done", !.abort = "quantity_range"]
       ELSE IF ~IsNumeric(target_input) THEN [x EXCEPT !.pc = "resolve", !.quantity = q.val]
       ELSE IF ~Truthy(target)
       THEN [x EXCEPT !.pc = "done", !.quantity = q.val, !.abort = "target"]
       ELSE [x EXCEPT !.pc = "get_users", !.quantity = q.val, !.target_id = target[1]]

DeleteTrigger_NotShort(t) ==
    LET x == task[t] IN
    /\ x.pc \in {"del_chat", "del_short", "del_code", "del_mismatch", "del_unauth", "del_accept"}
    /\ \E r \in DeleteResults :
        LET y == [x EXCEPT !.del_calls = @ + 1,
                           !.trig = IF r = "ok" THEN "deleted" ELSE @]
        IN task' = [task EXCEPT ![t] =
                IF x.pc = "del_short" THEN [x EXCEPT !.pc = "done"]
                ELSE IF x.pc = "del_chat" THEN [y EXCEPT !.pc = "done"]
                ELSE IF x.pc = "del_accept" THEN AfterAcceptDelete(y)
                ELSE [y EXCEPT !.pc = "warn_reply"]]
    /\ UNCHANGED <<config, current_spam_command, reply, pool_in, pool_out>>

DeleteTrigger_FailStops(t) ==
    LET x == task[t] IN
    /\ x.pc \in {"del_chat", "del_short", "del_code", "del_mismatch", "del_unauth", "del_accept"}
    /\ \E r \in DeleteResults :
        LET y == [x EXCEPT !.del_calls = @ + 1,
                           !.trig = IF r = "ok" THEN "deleted" ELSE @]
        IN task' = [task EXCEPT ![t] =
                IF x.pc \in {"del_chat", "del_short"} \/ r # "ok" THEN [y EXCEPT !.pc = "done"]
                ELSE IF x.pc = "del_accept" THEN AfterAcceptDelete(y)
                ELSE [y EXCEPT !.pc = "warn_reply"]]
    /\ UNCHANGED <<config, current_spam_command, reply, pool_in, pool_out>>

\* delete_messages on the trigger message returns
DeleteTrigger(t) ==
    LET x == task[t] IN
    /\ x.pc \in {"del_chat", "del_short", "del_code", "del_mismatch", "del_unauth", "del_accept"}
    /\ \E r \in DeleteResults :
        LET y == [x EXCEPT !.del_calls = @ + 1,
                           !.trig = IF r = "ok" THEN "deleted" ELSE @]
        IN task' = [task EXCEPT ![t] =
                IF x.pc \in {"del_chat", "del_short"} THEN [y EXCEPT !.pc = "done"]
                ELSE IF x.pc = "del_accept" THEN AfterAcceptDelete(y)
                ELSE [y EXCEPT !.pc = "warn_reply"]]
    /\ UNCHANGED <<config, current_spam_command, reply, pool_in, pool_out>>

\* message.reply_text in a private chat returns, or raises out of the handler
PrivateReply(t) ==
    /\ task[t].pc = "pm_reply"
    /\ \E r \in {"ok", "error"} :
        task' = [task EXCEPT ![t] =
                    IF r = "ok" THEN [@ EXCEPT !.pc = "done", !.pm_replies = @ + 1]
                    ELSE [@ EXCEPT !.pc = "crashed"]]
    /\ UNCHANGED <<config, current_spam_command, reply, pool_in, pool_out>>

WarnSleep_None == WarnDelay - WarnDelay

\* asyncio.sleep(20) before the warning is deleted
WarnSleep == WarnDelay

\* message.reply_text of a rejection returns and the sleep starts, or it raises
\* out of the handler (the call stands outside every try)
WarnReply(t) ==
    /\ task[t].pc = "warn_reply"
    /\ \E r \in {"ok", "error"} :
        task' = [task EXCEPT ![t] =
                    IF r = "ok"
                    THEN [@ EXCEPT !.pc = "warn_sleep", !.warn = "posted",
                                   !.warn_posts = @ + 1, !.timer = WarnSleep]
                    ELSE [@ EXCEPT !.pc = "crashed"]]
    /\ UNCHANGED <<config, current_spam_command, reply, pool_in, pool_out>>

WarnDelete_Never(t) ==
    /\ task[t].pc = "warn_sleep"
    /\ task[t].timer = 0
    /\ task' = [task EXCEPT ![t] = [@ EXCEPT !.pc = "done"]]
    /\ UNCHANGED <<config, current_spam_command, reply, pool_in, pool_out>>

WarnDelete_SleepsAgain(t) ==
    /\ task[t].pc = "warn_sleep"
    /\ task[t].timer = 0
    /\ task' = [task EXCEPT ![t] = [@ EXCEPT !.timer = WarnSleep, !.warn_age = 0]]
    /\ UNCHANGED <<config, current_spam_command, reply, pool_in, pool_out>>

\* the sleep is over and delete_messages on the warning returns
WarnDelete(t) ==
    /\ task[t].pc = "warn_sleep"
    /\ task[t].timer = 0
    /\ \E r \in DeleteResults :
        task' = [task EXCEPT ![t] =
                    [@ EXCEPT !.pc = "done", !.warn_del_calls = @ + 1,
                              !.warn = IF r = "ok" THEN "deleted" ELSE @]]
    /\ UNCHANGED <<config, current_spam_command, reply, pool_in, pool_out>>

\* ids the platform resolves a handle to
TargetIds == {7}

\* app.get_users(handle) inside resolve_user_id returns
ResolveTarget(t) ==
    LET x == task[t] IN
    /\ x.pc = "resolve"
    /\ \E lookup \in Lookups(TargetIds) :
        LET target == resolve_id(Split(x.msg.text)[3], lookup)
        IN task' = [task EXCEPT ![t] =
                IF ~Truthy(target) THEN [x EXCEPT !.pc = "done", !.abort = "target"]
                ELSE [x EXCEPT !.pc = "get_users", !.target_id = target[1]]]
    /\ UNCHANGED <<config, current_spam_command, reply, pool_in, pool_out>>

\* client.get_users(target_id) returns, raises one of the three caught errors,
\* or raises another error out of the handler
GetTargetUser(t) ==
    /\ task[t].pc = "get_users"
    /\ \E r \in {"ok", "invalid", "error"} :
        task' = [task EXCEPT ![t] =
                    IF r = "ok" THEN [@ EXCEPT !.pc = "get_member"]
                    ELSE IF r = "invalid" THEN [@ EXCEPT !.pc = "done", !.abort = "target_info"]
                    ELSE [@ EXCEPT !.pc = "crashed"]]
    /\ UNCHANGED <<config, current_spam_command, reply, pool_in, pool_out>>

\* what get_chat_member(chat, "me") answers: a status, ChatAdminRequired, or
\* another error
MemberResults == {"administrator", "owner", "member", "admin_required", "error"}

RoleElevated_NotRefused(r) == r \notin {"admin_required", "error"}

\* the status read is administrator or owner
RoleElevated(r) == r \in {"administrator", "owner"}

\* get_chat_member returns; with the bot an administrator the pool is built
\* and the loop runs to its first send_message call
GetChatMember(t) ==
    LET x == task[t]
        messages == config.spam_messages
    IN
    /\ x.pc = "get_member"
    /\ \E r \in MemberResults :
        LET y == [x EXCEPT !.role = r] IN
        IF ~RoleElevated(r)
        THEN task' = [task EXCEPT ![t] = [y EXCEPT !.pc = "done", !.abort = "not_admin"]]
        ELSE IF messages = <<>>
        THEN task' = [task EXCEPT ![t] = [y EXCEPT !.pc = "done", !.abort = "no_messages"]]
        ELSE \E p \in MessagePools(messages, x.quantity) :
                task' = [task EXCEPT ![t] = AtItem([y EXCEPT !.pool = p], 1)]
    /\ UNCHANGED <<config, current_spam_command, reply, pool_in, pool_out>>

\* FloodWait durations
FloodWaits == 1..MaxFlood

Send_ForbiddenContinues(t) ==
    LET x == task[t]
        y == [x EXCEPT !.attempts = @ + 1, !.tried = Append(@, x.i)]
    IN
    /\ x.pc = "send"
    /\ \/ task' = [task EXCEPT ![t] =
                     [y EXCEPT !.pc = "pause", !.success_count = @ + 1,
                               !.sent = Append(@, Format(x.pool[x.i], Mention))]]
       \/ \E d \in FloodWaits :
            task' = [task EXCEPT ![t] =
                        [y EXCEPT !.pc = "flood", !.timer = d, !.flood_wait = d]]
       \/ task' = [task EXCEPT ![t] = AtItem([y EXCEPT !.abort = "write_forbidden"], x.i + 1)]
       \/ task' = [task EXCEPT ![t] = AtItem([y EXCEPT !.send_errors = @ + 1], x.i + 1)]
    /\ UNCHANGED <<config, current_spam_command, reply, pool_in, pool_out>>

Send_ErrorStops(t) ==
    LET x == task[t]
        y == [x EXCEPT !.attempts = @ + 1, !.tried = Append(@, x.i)]
    IN
    /\ x.pc = "send"
    /\ \/ task' = [task EXCEPT ![t] =
                     [y EXCEPT !.pc = "pause", !.success_count = @ + 1,
                               !.sent = Append(@, Format(x.pool[x.i], Mention))]]
       \/ \E d \in FloodWaits :
            task' = [task EXCEPT ![t] =
                        [y EXCEPT !.pc = "flood", !.timer = d, !.flood_wait = d]]
       \/ task' = [task EXCEPT ![t] = [y EXCEPT !.pc = "done", !.abort = "write_forbidden"]]
       \/ task' = [task EXCEPT ![t] = [y EXCEPT !.pc = "done", !.send_errors = @ + 1]]
    /\ UNCHANGED <<config, current_spam_command, reply, pool_in, pool_out>>

Send_SharedCount(t) ==
    LET x == task[t]
        y == [x EXCEPT !.attempts = @ + 1, !.tried = Append(@, x.i)]
    IN
    /\ x.pc = "send"
    /\ \/ task' = [u \in Tasks |->
                     IF u = t
                     THEN [y EXCEPT !.pc = "pause", !.success_count = @ + 1,
                                    !.sent = Append(@, Format(x.pool[x.i], Mention))]
                     ELSE IF task[u].pc \in {"send", "pause", "flood"}
                     THEN [task[u] EXCEPT !.success_count = @ + 1]
                     ELSE task[u]]
       \/ \E d \in FloodWaits :
            task' = [task EXCEPT ![t] =
                        [y EXCEPT !.pc = "flood", !.timer = d, !.flood_wait = d]]
       \/ task' = [task EXCEPT ![t] = [y EXCEPT !.pc = "done", !.abort = "write_forbidden"]]
       \/ task' = [task EXCEPT ![t] = AtItem([y EXCEPT !.send_errors = @ + 1], x.i + 1)]
    /\ UNCHANGED <<config, current_spam_command, reply, pool_in, pool_out>>

\* a send that reads the template to send from the template list of the moment
Send_LiveTemplates(t) ==
    LET x == task[t]
        y == [x EXCEPT !.attempts = @ + 1, !.tried = Append(@, x.i)]
        messages == config.spam_messages
    IN
    /\ x.pc = "send"
    /\ \/ IF messages = <<>>
          THEN task' = [task EXCEPT ![t] = [y EXCEPT !.pc = "done", !.abort = "no_messages"]]
          ELSE task' = [task EXCEPT ![t] =
                          [y EXCEPT !.pc = "pause", !.success_count = @ + 1,
                                    !.sent = Append(@,
                                        Format(messages[((x.i - 1) % Len(messages)) + 1],
                                               Mention))]]
       \/ \E d \in FloodWaits :
            task' = [task EXCEPT ![t] =
                        [y EXCEPT !.pc = "flood", !.timer = d, !.flood_wait = d]]
       \/ task' = [task EXCEPT ![t] = [y EXCEPT !.pc = "done", !.abort = "write_forbidden"]]
       \/ task' = [task EXCEPT ![t] = AtItem([y EXCEPT !.send_errors = @ + 1], x.i + 1)]
    /\ UNCHANGED <<config, current_spam_command, reply, pool_in, pool_out>>

\* send_message returns, or raises FloodWait, ChatWriteForbidden or another
\* error
Send(t) ==
    LET x == task[t]
        y == [x EXCEPT !.attempts = @ + 1, !.tried = Append(@, x.i)]
    IN
    /\ x.pc = "send"
    /\ \/ task' = [task EXCEPT ![t] =
                     [y EXCEPT !.pc = "pause", !.success_count = @ + 1,
                               !.sent = Append(@, Format(x.pool[x.i], Mention))]]
       \/ \E d \in FloodWaits :
            task' = [task EXCEPT ![t] =
                        [y EXCEPT !.pc = "flood", !.timer = d, !.flood_wait = d]]
       \/ task' = [task EXCEPT ![t] = [y EXCEPT !.pc = "done", !.abort = "write_forbidden"]]
       \/ task' = [task EXCEPT ![t] = AtItem([y EXCEPT !.send_errors = @ + 1], x.i + 1)]
    /\ UNCHANGED <<config, current_spam_command, reply, pool_in, pool_out>>

Pause_Reauthorizes(t) ==
    LET x == task[t]
        code_uid == get_user_id_from_code(config, Split(x.msg.text)[2])
    IN
    /\ x.pc = "pause"
    /\ task' = [task EXCEPT ![t] =
                    IF /\ ChatAllowed(config, x.msg)
                       /\ Truthy(code_uid)
                       /\ AccountAllowed(config, code_uid[1])
                    THEN AtItem(x, x.i + 1)
                    ELSE [x EXCEPT !.pc = "done", !.abort = "revoked"]]
    /\ UNCHANGED <<config, current_spam_command, reply, pool_in, pool_out>>

\* the pause after a successful send (under one time unit) is over
Pause(t) ==
    /\ task[t].pc = "pause"
    /\ task' = [task EXCEPT ![t] = AtItem(@, @.i + 1)]
    /\ UNCHANGED <<config, current_spam_command, reply, pool_in, pool_out>>

FloodDone_Retry(t) ==
    /\ task[t].pc = "flood"
    /\ task[t].timer = 0
    /\ task' = [task EXCEPT ![t] =
                    AtItem([@ EXCEPT !.flood_wait = 0, !.flood_age = 0], @.i)]
    /\ UNCHANGED <<config, current_spam_command, reply, pool_in, pool_out>>

\* the sleep after a FloodWait is over: the loop goes on with the next item
FloodDone(t) ==
    /\ task[t].pc = "flood"
    /\ task[t].timer = 0
    /\ task' = [task EXCEPT ![t] =
                    AtItem([@ EXCEPT !.flood_wait = 0, !.flood_age = 0], @.i + 1)]
    /\ UNCHANGED <<config, current_spam_command, reply, pool_in, pool_out>>

\* time passes until the earliest running sleep is over
Advance ==
    LET sleeping == {t \in Tasks : task[t].timer > 0} IN
    /\ sleeping # {}
    /\ LET d == CHOOSE d \in {task[t].timer : t \in sleeping} :
                    \A t \in sleeping : d <= task[t].timer
       IN task' = [t \in Tasks |->
                IF t \in sleeping
                THEN [task[t] EXCEPT !.timer = @ - d,
                                     !.warn_age = IF task[t].pc = "warn_sleep" THEN @ + d ELSE @,
                                     !.flood_age = IF task[t].pc = "flood" THEN @ + d ELSE @]
                ELSE task[t]]
    /\ UNCHANGED <<config, current_spam_command, reply, pool_in, pool_out>>

\* the handler has returned (or raised): its frame is gone
Finish(t) ==
    /\ task[t].pc \in {"done", "crashed"}
    /\ task' = [task EXCEPT ![t] = IdleTask]
    /\ UNCHANGED <<config, current_spam_command, reply, pool_in, pool_out>>

-----------------------------------------------------------------------------
(* One trigger message at a time, under a configuration the owner's commands  *)
(* can have left                                                              *)

FirstWords == {<<"/", "s">>, <<"s">>, <<"/", "s", "p">>, <<"/", "p">>}

TargetWords == {<<"7">>, <<"0">>, <<"@", "u">>}

QuantityWords ==
    {IntToWord(k) : k \in 0..MaxQty} \cup {IntToWord(MaxQuantity + 1), <<"x">>, <<"-", "1">>}

\* the code field: the code the configuration binds, and one it does not
CodeWords == {<<TokenNames[1]>>, <<TokenNames[NumTokens]>>}

FourWords ==
    {<<f, c, g, q>> : f \in FirstWords, c \in CodeWords, g \in TargetWords, q \in QuantityWords}

\* no text, the texts of one to four fields, and some with a fifth field
Texts ==
    {Join(SubSeq(w, 1, k)) : w \in FourWords, k \in 0..4}
        \cup {Join(<<<<"/", "s">>, c, <<"7">>, q, <<"e">>>>) : c \in CodeWords, q \in QuantityWords}

SoloChat == CHOOSE c \in GroupIds : \A d \in GroupIds : c <= d

\* in the group: no identifiable sender, the owner or another account; in a
\* private chat the chat is the sender's
Messages ==
    {[text |-> x, chat |-> [id |-> SoloChat, type |-> "group"], from_user |-> u] :
        x \in Texts, u \in Option(Senders)}
    \cup {[text |-> x, chat |-> [id |-> u, type |-> "private"], from_user |-> Some(u)] :
        x \in Texts, u \in Senders}

\* the first n templates, or the longest of these lists with its last template
\* replaced by BadTemplate
GateTemplateLists ==
    {SubSeq(AllTemplates, 1, n) : n \in 0..NumTemplates}
        \cup {Append(SubSeq(AllTemplates, 1, NumTemplates - 1), BadTemplate)}

\* the owner alone or with the next account authorized, the chat authorized
\* or not, a template list, and the first code bound to any account
GateConfigs ==
    {[DEFAULT_CONFIG EXCEPT
        !.authorized_users = <<OWNER_ID>> \o [k \in 1..j |-> OWNER_ID + k],
        !.authorized_chats = cs,
        !.spam_messages = ms,
        !.user_secret_codes = [c \in {<<TokenNames[1]>>} |-> a]] :
        j \in 0..1, cs \in {<<>>, <<SoloChat>>},
        ms \in GateTemplateLists, a \in Accounts}

SoloTasks == {"h1"}

Init ==
    /\ config \in GateConfigs
    /\ current_spam_command = config.spam_command
    /\ reply = NoReply
    /\ task = [t \in Tasks |-> IdleTask]
    /\ pool_in = [messages |-> <<>>, quantity |-> 0]
    /\ pool_out = None

Next ==
    \/ \E t \in SoloTasks : Gate(t, Messages)
    \/ \E t \in SoloTasks : DeleteTrigger(t)
    \/ \E t \in SoloTasks : PrivateReply(t)
    \/ \E t \in SoloTasks : WarnReply(t)
    \/ \E t \in SoloTasks : WarnDelete(t)
    \/ \E t \in SoloTasks : ResolveTarget(t)
    \/ \E t \in SoloTasks : GetTargetUser(t)
    \/ \E t \in SoloTasks : GetChatMember(t)
    \/ \E t \in SoloTasks : Send(t)
    \/ \E t \in SoloTasks : Pause(t)
    \/ \E t \in SoloTasks : FloodDone(t)
    \/ \E t \in SoloTasks : Finish(t)
    \/ Advance

Spec == Init /\ [][Next]_vars

-----------------------------------------------------------------------------
(* The owner's commands while a trigger message is handled: the owner acts on *)
(* one account, one code and one chat, from a first start                     *)

\* the account the owner authorizes, removes and issues the code for
LiveAccount == OWNER_ID + 1

LiveCode == <<TokenNames[1]>>

\* a numeric argument is resolved without asking the platform
NoLookup == [kind |-> "notfound", id |-> 0]

LiveAddUser ==
    /\ UNCHANGED task
    /\ add_user_command(OWNER_ID, Some(IntToWord(LiveAccount)), NoLookup)

LiveRemoveUser ==
    /\ UNCHANGED task
    /\ remove_user_command(OWNER_ID, Some(IntToWord(LiveAccount)), NoLookup)

\* secrets.token_urlsafe returns the code LiveCode
LiveGenerateSecret ==
    /\ UNCHANGED task
    /\ generate_secret_command(OWNER_ID, Some(IntToWord(LiveAccount)), NoLookup)
    /\ reply'.kind = "generated" => reply'.code = LiveCode

LiveRevokeSecret ==
    /\ UNCHANGED task
    /\ revoke_secret_command(OWNER_ID, Some(LiveCode))

LiveAddChat ==
    /\ UNCHANGED task
    /\ add_chat_command(OWNER_ID, Some(IntToWord(SoloChat)), NoLookup)

LiveRemoveChat ==
    /\ UNCHANGED task
    /\ remove_chat_command(OWNER_ID, Some(IntToWord(SoloChat)), NoLookup)

\* a complete command for two messages, sent in the group by the account or
\* by no identifiable sender
LiveMessages ==
    {[text |-> Join(<<<<"/", "s">>, LiveCode, <<"7">>, IntToWord(2)>>),
      chat |-> [id |-> SoloChat, type |-> "group"], from_user |-> u] :
        u \in {None, Some(LiveAccount)}}

InitLive ==
    /\ config = BotConfigInit(DEFAULT_CONFIG)
    /\ current_spam_command = config.spam_command
    /\ reply = NoReply
    /\ task = [t \in Tasks |-> IdleTask]
    /\ pool_in = [messages |-> <<>>, quantity |-> 0]
    /\ pool_out = None

NextLive ==
    \/ LiveAddUser
    \/ LiveRemoveUser
    \/ LiveGenerateSecret
    \/ LiveRevokeSecret
    \/ LiveAddChat
    \/ LiveRemoveChat
    \/ \E t \in SoloTasks : Gate(t, LiveMessages)
    \/ \E t \in SoloTasks : DeleteTrigger(t)
    \/ \E t \in SoloTasks : WarnReply(t)
    \/ \E t \in SoloTasks : WarnDelete(t)
    \/ \E t \in SoloTasks : GetTargetUser(t)
    \/ \E t \in SoloTasks : GetChatMember(t)
    \/ \E t \in SoloTasks : Send(t)
    \/ \E t \in SoloTasks : Pause(t)
    \/ \E t \in SoloTasks : FloodDone(t)
    \/ \E t \in SoloTasks : Finish(t)
    \/ Advance

SpecLive == InitLive /\ [][NextLive]_vars

-----------------------------------------------------------------------------
(* Claims about the gate and the send loop.  They are stated on the message a *)
(* run handles, the configuration, and what the run did on the platform.      *)

HasPrefix(text, p) == \E k \in 0..Len(text) : SubSeq(text, 1, k) = p

\* the text begins with the command string, with or without its leading "/"
BeginsWithCommand(text) ==
    \/ HasPrefix(text, current_spam_command)
    \/ /\ current_spam_command # <<>>
       /\ current_spam_command[1] = "/"
       /\ HasPrefix(text, Tail(current_spam_command))

\* Split tabulated once over the texts of Spec; any other text is split on demand
SplitOf == [text \in Texts |-> Split(text)]

Fields(x) ==
    IF x.msg.text \in DOMAIN SplitOf THEN SplitOf[x.msg.text] ELSE Split(x.msg.text)

InGroup(x) == x.msg.chat.type # "private"

ChatListed(x) == x.msg.chat.id \in Range(config.authorized_chats)

\* a trigger of at least 4 fields in an authorized non-private chat
WellFormedTrigger(x) ==
    /\ x.pc # "idle"
    /\ BeginsWithCommand(x.msg.text)
    /\ InGroup(x)
    /\ ChatListed(x)
    /\ Len(Fields(x)) >= 4

TokenKnown(x) == Fields(x)[2] \in DOMAIN config.user_secret_codes

Bound(x) == config.user_secret_codes[Fields(x)[2]]

\* the decimal texts of 1..100, tabulated once
QuantityWord == [k \in 1..100 |-> IntToWord(k)]

\* the fourth field is the decimal text of an integer in [1,100]
QuantityOk(x) == LET w == Fields(x)[4] IN \E k \in 1..100 : w = QuantityWord[k]

QuantityOf(x) == LET w == Fields(x)[4] IN CHOOSE k \in 1..100 : w = QuantityWord[k]

NoSends(x) == x.attempts = 0 /\ x.sent = <<>> /\ x.success_count = 0

\* chat, token, sender and account checks all pass
ChecksPass(x) ==
    /\ WellFormedTrigger(x)
    /\ TokenKnown(x)
    /\ x.msg.from_user \in {None, Some(Bound(x))}
    /\ Bound(x) \in Range(config.authorized_users)

\* a trigger in a group or channel that is not authorized
C4_Case(x) ==
    /\ x.pc # "idle"
    /\ BeginsWithCommand(x.msg.text)
    /\ InGroup(x)
    /\ ~ChatListed(x)

\* C4 as stated: in a chat that is not authorized a trigger causes no send and
\* no warning, and once the handler has returned the trigger message is deleted.
C4_Original ==
    \A t \in Tasks :
        LET x == task[t] IN
        C4_Case(x) =>
            /\ NoSends(x)
            /\ x.warn_posts = 0
            /\ x.pc = "done" => x.trig = "deleted"

\* C4: in a chat that is not authorized a trigger never reaches the dispatch
\* engine (no send, no pool, no platform query), no warning and no reply is
\* posted, and the deletion of the trigger message is attempted exactly once.
C4_UnauthorizedChat ==
    \A t \in Tasks :
        LET x == task[t] IN
        C4_Case(x) =>
            /\ NoSends(x)
            /\ x.pool = <<>>
            /\ x.warn_posts = 0
            /\ x.pm_replies = 0
            /\ x.pc \in {"del_chat", "done"}
            /\ x.del_calls = (IF x.pc = "done" THEN 1 ELSE 0)

\* the owner's otherwise acceptable command, deleted in a chat that is not
\* authorized
C4_Witness ==
    \E t \in Tasks :
        LET x == task[t] IN
        /\ C4_Case(x)
        /\ x.pc = "done"
        /\ x.trig = "deleted"
        /\ Len(Fields(x)) = 4
        /\ TokenKnown(x)
        /\ x.msg.from_user = Some(Bound(x))
        /\ Bound(x) = config.owner_id
        /\ QuantityOk(x)

\* C5: a valid token sent by an identifiable sender who is not the account
\* bound to it is rejected as a mismatch and causes no send, whether or not
\* the bound account or the sender is authorized.
C5_SenderMismatch ==
    \A t \in Tasks :
        LET x == task[t] IN
        (/\ WellFormedTrigger(x)
         /\ TokenKnown(x)
         /\ Bound(x) # 0
         /\ x.msg.from_user # None
         /\ x.msg.from_user # Some(Bound(x)))
            => /\ x.outcome = "mismatch"
               /\ NoSends(x)
               /\ x.pool = <<>>
               /\ x.pc \in {"del_mismatch", "warn_reply", "warn_sleep", "done", "crashed"}

\* the owner used a code bound to another authorized account and was rejected
C5_Witness ==
    \E t \in Tasks :
        LET x == task[t] IN
        /\ WellFormedTrigger(x)
        /\ TokenKnown(x)
        /\ x.msg.from_user = Some(config.owner_id)
        /\ Bound(x) # config.owner_id
        /\ Bound(x) \in Range(config.authorized_users)
        /\ QuantityOk(x)
        /\ x.pc = "done"
        /\ x.outcome = "mismatch"

\* C6: a command that passes every check and whose quantity field is not an
\* integer in [1,100] causes no send.
C6_BadQuantity ==
    \A t \in Tasks :
        LET x == task[t] IN
        (ChecksPass(x) /\ ~QuantityOk(x))
            => /\ NoSends(x)
               /\ x.pool = <<>>
               /\ x.outcome = "accepted"
               /\ x.pc \in {"del_accept", "done"}

\* an accepted command with quantity 101 ended without a send
C6_Witness ==
    \E t \in Tasks :
        LET x == task[t] IN
        /\ ChecksPass(x)
        /\ Fields(x)[4] = IntToWord(101)
        /\ x.msg.from_user = Some(Bound(x))
        /\ x.pc = "done"
        /\ x.del_calls = 1
        /\ x.attempts = 0

\* a well-formed trigger in an authorized chat whose token is not in the table
C7_Case(x) == WellFormedTrigger(x) /\ ~TokenKnown(x)

\* C7 as stated: for an unknown token the trigger is deleted, exactly one
\* warning is posted and deleted after 20 time units, and nothing is sent.
C7_Original ==
    \A t \in Tasks :
        LET x == task[t] IN
        C7_Case(x) =>
            /\ NoSends(x)
            /\ x.pc \in {"done", "crashed"} =>
                /\ x.trig = "deleted"
                /\ x.warn_posts = 1
                /\ x.warn = "deleted"
                /\ x.warn_age >= 20

\* C7: for an unknown token the deletion of the trigger is attempted exactly
\* once and before the warning; the warning is posted at most once, and
\* exactly once unless the post fails, which ends the handler; the deletion of
\* a posted warning is attempted exactly once, 20 time units after the post and
\* not before; nothing is sent.
C7_UnknownToken ==
    \A t \in Tasks :
        LET x == task[t] IN
        C7_Case(x) =>
            /\ NoSends(x)
            /\ x.outcome = "invalid_code"
            /\ x.pc \in {"del_code", "warn_reply", "warn_sleep", "done", "crashed"}
            /\ x.del_calls = (IF x.pc = "del_code" THEN 0 ELSE 1)
            /\ x.warn_posts = (IF x.pc \in {"warn_sleep", "done"} THEN 1 ELSE 0)
            /\ x.warn_del_calls = (IF x.pc = "done" THEN 1 ELSE 0)
            /\ x.warn_del_calls > 0 => x.warn_age >= 20
            /\ x.warn = "deleted" => x.warn_age >= 20

\* the trigger and, 20 time units later, the warning were deleted
C7_Witness ==
    \E t \in Tasks :
        LET x == task[t] IN
        /\ C7_Case(x)
        /\ x.pc = "done"
        /\ x.trig = "deleted"
        /\ x.warn = "deleted"
        /\ x.warn_age = 20

\* an accepted command from the bound account itself, handled to the end with
\* the target resolved, the bot an administrator and no send failing
C8_Case(x) ==
    /\ ChecksPass(x)
    /\ x.msg.from_user = Some(Bound(x))
    /\ QuantityOk(x)
    /\ config.spam_messages # <<>>
    /\ x.pc = "done"
    /\ x.abort \notin {"target", "target_info", "not_admin", "write_forbidden"}
    /\ x.success_count = x.attempts

\* C8 as stated, for templates that hold no placeholder but {mention}: such a
\* command sends exactly quantity messages, the pool entries in pool order,
\* the trigger message is deleted and no warning is posted.
C8_Original ==
    \A t \in Tasks :
        LET x == task[t] IN
        (C8_Case(x) /\ BadTemplate \notin Range(config.spam_messages)) =>
            /\ Len(x.sent) = QuantityOf(x)
            /\ x.trig = "deleted"
            /\ x.warn_posts = 0

\* C8: when every template holds no placeholder but {mention}, such a
\* command sends exactly quantity messages, the pool entries in pool order,
\* the deletion of the trigger message is attempted exactly once, and no
\* warning is posted.
C8_AcceptedDispatch ==
    \A t \in Tasks :
        LET x == task[t] IN
        (C8_Case(x) /\ BadTemplate \notin Range(config.spam_messages)) =>
            /\ Len(x.sent) = QuantityOf(x)
            /\ Len(x.pool) = QuantityOf(x)
            /\ \A k \in 1..Len(x.sent) :
                /\ x.pool[k] \in Range(config.spam_messages)
                /\ x.sent[k] = Format(x.pool[k], Mention)
            /\ x.del_calls = 1
            /\ x.warn_posts = 0
            /\ x.pm_replies = 0

\* two templates, quantity 1: one message sent, trigger deleted
C8_Witness ==
    \E t \in Tasks :
        LET x == task[t] IN
        /\ C8_Case(x)
        /\ Len(config.spam_messages) = 2
        /\ BadTemplate \notin Range(config.spam_messages)
        /\ QuantityOf(x) = 1
        /\ Len(x.sent) = 1
        /\ x.trig = "deleted"

\* C9: a trigger in a private chat causes no send and no deletion: the
\* handler posts its guidance reply, at most once, and returns.
C9_PrivateChat ==
    \A t \in Tasks :
        LET x == task[t] IN
        (x.pc # "idle" /\ BeginsWithCommand(x.msg.text) /\ ~InGroup(x))
            => /\ NoSends(x)
               /\ x.pool = <<>>
               /\ x.del_calls = 0
               /\ x.trig = "present"
               /\ x.warn_posts = 0
               /\ x.outcome = "private"
               /\ x.pc \in {"pm_reply", "done", "crashed"}
               /\ x.pm_replies = (IF x.pc = "done" THEN 1 ELSE 0)

\* the owner sent a complete command with their own valid code in private
C9_Witness ==
    \E t \in Tasks :
        LET x == task[t] IN
        /\ x.pc = "done"
        /\ ~InGroup(x)
        /\ x.msg.from_user = Some(config.owner_id)
        /\ Len(Fields(x)) = 4
        /\ StartsWith(x.msg.text, current_spam_command)
        /\ TokenKnown(x)
        /\ Bound(x) = config.owner_id
        /\ QuantityOk(x)
        /\ x.pm_replies = 1

-----------------------------------------------------------------------------
(* Claims about the gate while the owner changes the registries *)

\* the handler of task t starts on a message and runs to its first suspension
GateStep(t) == task[t].pc = "idle" /\ task'[t].pc # "idle"

\* C11: the gate accepts a command only if the account its code is bound to is
\* in authorized_users when the gate runs; a code still in the table whose
\* account has been removed since is rejected as unauthorized, from the account
\* itself and from no identifiable sender alike: the trigger's deletion is
\* attempted once, then the warning is posted and its deletion attempted 20
\* time units later, and nothing is sent.
C11_AuthorizedAtGateTime ==
    /\ [][\A t \in Tasks :
            GateStep(t) =>
                LET x == task'[t] IN
                /\ x.outcome = "accepted" =>
                        /\ TokenKnown(x)
                        /\ Bound(x) \in Range(config.authorized_users)
                /\ (/\ WellFormedTrigger(x)
                    /\ TokenKnown(x)
                    /\ x.msg.from_user \in {None, Some(Bound(x))}
                    /\ Bound(x) \notin Range(config.authorized_users))
                        => x.outcome = "unauthorized"]_vars
    /\ [](\A t \in Tasks :
            LET x == task[t] IN
            x.outcome = "unauthorized" =>
                /\ NoSends(x)
                /\ x.pool = <<>>
                /\ x.pc \in {"del_unauth", "warn_reply", "warn_sleep", "done", "crashed"}
                /\ x.del_calls = (IF x.pc = "del_unauth" THEN 0 ELSE 1)
                /\ x.warn_posts = (IF x.pc \in {"warn_sleep", "done"} THEN 1 ELSE 0)
                /\ x.warn_del_calls = (IF x.pc = "done" THEN 1 ELSE 0)
                /\ x.warn_del_calls > 0 => x.warn_age >= WarnDelay)

\* the code was issued to the account, the account was removed, and the
\* account's own command was rejected and cleaned up
C11_Witness ==
    \E t \in Tasks :
        LET x == task[t] IN
        /\ x.outcome = "unauthorized"
        /\ x.pc = "done"
        /\ x.msg.from_user = Some(LiveAccount)
        /\ x.trig = "deleted"
        /\ x.warn = "deleted"
        /\ LiveCode \in DOMAIN config.user_secret_codes
        /\ config.user_secret_codes[LiveCode] = LiveAccount
        /\ LiveAccount \notin Range(config.authorized_users)

-----------------------------------------------------------------------------
(* Further claims about the gate *)

\* C12: a well-formed trigger in an authorized chat with no identifiable
\* sender is never rejected as a sender mismatch, and is accepted exactly when
\* its code is in the table and bound to an account in authorized_users.
C12_AnonymousPath ==
    \A t \in Tasks :
        LET x == task[t] IN
        (WellFormedTrigger(x) /\ x.msg.from_user = None) =>
            /\ x.outcome # "mismatch"
            /\ x.outcome = "accepted"
                <=> (TokenKnown(x) /\ Bound(x) \in Range(config.authorized_users))

\* an anonymous command with the code of an authorized account other than the
\* owner was accepted and sent a message
C12_Witness ==
    \E t \in Tasks :
        LET x == task[t] IN
        /\ WellFormedTrigger(x)
        /\ x.msg.from_user = None
        /\ TokenKnown(x)
        /\ Bound(x) # config.owner_id
        /\ x.outcome = "accepted"
        /\ x.pc = "done"
        /\ Len(x.sent) >= 1

\* a trigger in a group or channel: it ends on one of the six paths chat not
\* authorized, short command, unknown token, sender mismatch, account not
\* authorized, accepted
GroupTrigger(x) ==
    /\ x.pc # "idle"
    /\ BeginsWithCommand(x.msg.text)
    /\ InGroup(x)

\* C13: on each of these paths delete_messages on the trigger message is called
\* exactly once by the time the handler ends, and it is the handler's first
\* platform call: until it has returned no warning is posted, the quantity is
\* not validated, no target is resolved, the bot's role is not read and nothing
\* is sent; so a dispatch that aborts silently has attempted the deletion.
C13_DeletionAttemptedOnce ==
    \A t \in Tasks :
        LET x == task[t] IN
        GroupTrigger(x) =>
            /\ x.del_calls \in {0, 1}
            /\ x.pc \in {"done", "crashed"} => x.del_calls = 1
            /\ x.del_calls = 0 =>
                /\ x.warn_posts = 0
                /\ x.quantity = 0
                /\ x.target_id = 0
                /\ x.role = "none"
                /\ x.abort = "none"
                /\ x.pool = <<>>
                /\ NoSends(x)
            /\ x.abort # "none" => x.del_calls = 1

\* an accepted command whose quantity is out of range ended with its trigger
\* deleted and nothing sent
C13_Witness ==
    \E t \in Tasks :
        LET x == task[t] IN
        /\ GroupTrigger(x)
        /\ ChecksPass(x)
        /\ ~QuantityOk(x)
        /\ x.pc = "done"
        /\ x.abort = "quantity_range"
        /\ x.del_calls = 1
        /\ x.trig = "deleted"
        /\ NoSends(x)

\* the outcome the checks give when taken in the order trigger match, chat
\* check, private chat, parse check, token check, sender match, account check
FirstFailingCheck(x) ==
    IF ~BeginsWithCommand(x.msg.text) THEN "ignored"
    ELSE IF InGroup(x) /\ ~ChatListed(x) THEN "chat_unauthorized"
    ELSE IF ~InGroup(x) THEN "private"
    ELSE IF Len(Fields(x)) < 4 THEN "incomplete"
    ELSE IF ~TokenKnown(x) THEN "invalid_code"
    ELSE IF x.msg.from_user \notin {None, Some(Bound(x))} THEN "mismatch"
    ELSE IF Bound(x) \notin Range(config.authorized_users) THEN "unauthorized"
    ELSE "accepted"

\* C14: the gate's outcome is that of the first failing check in this order;
\* so a trigger in a chat that is not authorized gets no warning even with an
\* unknown token, a short command has no code looked up, and an unknown token
\* from any sender gets the unknown-token rejection.
C14_CheckOrder ==
    \A t \in Tasks :
        LET x == task[t] IN
        x.pc # "idle" =>
            /\ x.outcome = FirstFailingCheck(x)
            /\ (GroupTrigger(x) /\ ~ChatListed(x)) => x.warn_posts = 0
            /\ (GroupTrigger(x) /\ ChatListed(x) /\ Len(Fields(x)) < 4) => x.code_uid = None
            /\ (WellFormedTrigger(x) /\ ~TokenKnown(x)) => x.outcome = "invalid_code"

\* an unknown token sent by an identifiable sender whose own account is not
\* authorized was rejected as an unknown token
C14_Witness ==
    \E t \in Tasks :
        LET x == task[t] IN
        /\ WellFormedTrigger(x)
        /\ ~TokenKnown(x)
        /\ x.msg.from_user # None
        /\ x.msg.from_user[1] \notin Range(config.authorized_users)
        /\ x.outcome = "invalid_code"
        /\ x.pc = "done"
        /\ x.warn_posts = 1

\* C15 as stated, with "deletes" and "posts" read as the handler's calls: a
\* handler that has returned from a rejection for chat not authorized, token
\* invalid, sender mismatch or account not authorized has called the deletion
\* of the trigger, posted one warning and called its deletion after the delay.
C15_Original ==
    \A t \in Tasks :
        LET x == task[t] IN
        (/\ x.pc = "done"
         /\ FirstFailingCheck(x) \in
                {"chat_unauthorized", "invalid_code", "mismatch", "unauthorized"})
            => /\ x.del_calls = 1
               /\ x.warn_posts = 1
               /\ x.warn_del_calls = 1
               /\ x.warn_age >= WarnDelay

\* C15: a rejection for token invalid, sender mismatch or account not
\* authorized calls the deletion of the trigger once, then posts one warning
\* (a failing post ends the handler) and calls the deletion of the warning
\* once, 20 time units after the post and not before; a rejection for chat not
\* authorized calls the deletion of the trigger once and posts no warning.
C15_RejectedCleanup ==
    \A t \in Tasks :
        LET x == task[t]
            why == FirstFailingCheck(x)
        IN
        x.pc # "idle" =>
            /\ why \in {"invalid_code", "mismatch", "unauthorized"} =>
                /\ NoSends(x)
                /\ x.pc \in {"del_code", "del_mismatch", "del_unauth",
                             "warn_reply", "warn_sleep", "done", "crashed"}
                /\ x.del_calls = (IF x.pc \in {"del_code", "del_mismatch", "del_unauth"}
                                  THEN 0 ELSE 1)
                /\ x.warn_posts = (IF x.pc \in {"warn_sleep", "done"} THEN 1 ELSE 0)
                /\ x.warn_del_calls = (IF x.pc = "done" THEN 1 ELSE 0)
                /\ x.pc = "done" => x.warn_age = WarnDelay
                /\ x.pc = "warn_sleep" => x.warn_age + x.timer = WarnDelay
            /\ why = "chat_unauthorized" =>
                /\ NoSends(x)
                /\ x.pc \in {"del_chat", "done"}
                /\ x.del_calls = (IF x.pc = "done" THEN 1 ELSE 0)
                /\ x.warn_posts = 0
                /\ x.warn_del_calls = 0

\* a rejection for an account that is not authorized ended with the trigger
\* and, after the delay, the warning deleted
C15_Witness ==
    \E t \in Tasks :
        LET x == task[t] IN
        /\ x.pc = "done"
        /\ FirstFailingCheck(x) = "unauthorized"
        /\ x.trig = "deleted"
        /\ x.warn_posts = 1
        /\ x.warn = "deleted"
        /\ x.warn_age = WarnDelay

\* a trigger of fewer than 4 fields in an authorized group or channel
C16_Case(x) == GroupTrigger(x) /\ ChatListed(x) /\ Len(Fields(x)) < 4

\* C16 as stated: a trigger of fewer than 4 fields is rejected with its
\* message deleted, no warning, no code looked up and nothing sent; a trigger
\* of more than 4 fields is not rejected for its length.
C16_Original ==
    \A t \in Tasks :
        LET x == task[t] IN
        /\ C16_Case(x) =>
            /\ x.outcome = "incomplete"
            /\ x.pc = "done" => x.trig = "deleted"
            /\ x.warn_posts = 0
            /\ x.code_uid = None
            /\ NoSends(x)
        /\ (WellFormedTrigger(x) /\ Len(Fields(x)) > 4) => x.outcome # "incomplete"

\* C16: a trigger of fewer than 4 fields is rejected: the deletion of its
\* message is attempted exactly once, no warning is posted, no code is looked
\* up and nothing is sent; a trigger of more than 4 fields is handled as its
\* first 4 fields are: it is not rejected for its length, its code is the
\* second field and its quantity the fourth.
C16_ShortCommand ==
    \A t \in Tasks :
        LET x == task[t] IN
        /\ C16_Case(x) =>
            /\ x.outcome = "incomplete"
            /\ x.pc \in {"del_short", "done"}
            /\ x.del_calls = (IF x.pc = "done" THEN 1 ELSE 0)
            /\ x.warn_posts = 0
            /\ x.pm_replies = 0
            /\ x.code_uid = None
            /\ x.pool = <<>>
            /\ NoSends(x)
        /\ (WellFormedTrigger(x) /\ Len(Fields(x)) > 4) =>
            /\ x.outcome # "incomplete"
            /\ x.outcome = FirstFailingCheck(x)
            /\ TokenKnown(x) => x.code_uid = Some(Bound(x))
            /\ x.quantity # 0 => (QuantityOk(x) /\ x.quantity = QuantityOf(x))

\* an otherwise acceptable command of three fields ended with its message
\* deleted
C16_Witness ==
    \E t \in Tasks :
        LET x == task[t] IN
        /\ C16_Case(x)
        /\ Len(Fields(x)) = 3
        /\ x.pc = "done"
        /\ x.trig = "deleted"
        /\ TokenKnown(x)
        /\ x.msg.from_user = Some(Bound(x))
        /\ Bound(x) \in Range(config.authorized_users)

-----------------------------------------------------------------------------
(* Claims about the send loop *)

\* the pool indices of the send_message calls made so far, in call order, are
\* strictly increasing: no item is attempted twice
TriedOnce(x) ==
    /\ \A k \in 1..Len(x.tried) : x.tried[k] \in 1..Len(x.pool)
    /\ \A k \in 1..(Len(x.tried) - 1) : x.tried[k] < x.tried[k + 1]

\* C17: a send that fails with a FloodWait of d makes the handler sleep d; then
\* the loop goes on with a later pool item, or ends, without a send call in
\* between; the failed item is not tried again.  So every pool item is tried at
\* most once and a dispatch makes at most quantity send calls.
C17_FloodWaitSkips ==
    /\ [][\A t \in Tasks :
            LET x == task[t]
                y == task'[t]
            IN
            /\ (x.pc = "send" /\ y.pc = "flood") =>
                    /\ y.flood_wait \in FloodWaits
                    /\ y.timer = y.flood_wait
                    /\ y.flood_age = 0
                    /\ y.i = x.i
                    /\ y.success_count = x.success_count
            /\ (x.pc = "flood" /\ y.pc # "flood") =>
                    /\ x.flood_age = x.flood_wait
                    /\ y.pc \in {"send", "done"}
                    /\ y.i > x.i
                    /\ y.attempts = x.attempts
                    /\ y.sent = x.sent
                    /\ y.pc = "send" => y.i \notin Range(x.tried)]_vars
    /\ [](\A t \in Tasks :
            LET x == task[t] IN
            /\ TriedOnce(x)
            /\ Len(x.tried) = x.attempts
            /\ x.attempts > 0 => x.attempts <= x.quantity
            /\ x.pc = "flood" => x.tried # <<>> /\ x.tried[Len(x.tried)] = x.i)

\* the first of two items failed with a FloodWait, the wait is over and the
\* second item is still to be sent
C17_Witness ==
    \E t \in Tasks :
        LET x == task[t] IN
        /\ x.pc = "flood"
        /\ x.timer = 0
        /\ x.flood_wait >= 1
        /\ x.flood_age = x.flood_wait
        /\ x.i = 1
        /\ x.tried = <<1>>
        /\ Len(x.pool) = 2
        /\ x.sent = <<>>

\* C18: a send that fails with ChatWriteForbidden ends the loop: the handler
\* goes to its report with the count and the messages of the earlier sends
\* unchanged, and makes no send call for any remaining pool item.
C18_WriteForbiddenStops ==
    /\ [][\A t \in Tasks :
            LET x == task[t]
                y == task'[t]
            IN
            /\ (x.abort # "write_forbidden" /\ y.abort = "write_forbidden") =>
                    /\ x.pc = "send"
                    /\ y.pc = "done"
                    /\ y.attempts = x.attempts + 1
                    /\ y.success_count = x.success_count
                    /\ y.sent = x.sent
            /\ x.abort = "write_forbidden" => (y = x \/ y = IdleTask)]_vars
    /\ [](\A t \in Tasks :
            LET x == task[t] IN
            x.abort = "write_forbidden" =>
                /\ x.pc = "done"
                /\ x.tried # <<>>
                /\ x.tried[Len(x.tried)] = x.i
                /\ x.success_count = Len(x.sent)
                /\ x.success_count < x.attempts)

\* the first of two items was refused with ChatWriteForbidden and the second
\* was never tried
C18_Witness ==
    \E t \in Tasks :
        LET x == task[t] IN
        /\ x.abort = "write_forbidden"
        /\ x.pc = "done"
        /\ Len(x.pool) = 2
        /\ x.tried = <<1>>
        /\ x.sent = <<>>

\* the pool items after item i that str.format can fill
LaterItems(x) == {k \in (x.i + 1)..Len(x.pool) : Formattable(x.pool[k])}

\* C19: after a send that fails with an error other than FloodWait and
\* ChatWriteForbidden the loop goes on: the next pool item is tried when there
\* is one; success_count is the number of messages sent, and
\* 0 <= success_count <= send calls <= quantity.
C19_OtherErrorContinues ==
    /\ [][\A t \in Tasks :
            LET x == task[t]
                y == task'[t]
            IN
            (x.pc = "send" /\ y.send_errors = x.send_errors + 1) =>
                /\ y.attempts = x.attempts + 1
                /\ y.success_count = x.success_count
                /\ y.sent = x.sent
                /\ y.abort = "none"
                /\ IF LaterItems(x) = {}
                   THEN y.pc = "done"
                   ELSE /\ y.pc = "send"
                        /\ \A k \in LaterItems(x) : y.i <= k
                        /\ y.i \in LaterItems(x)]_vars
    /\ [](\A t \in Tasks :
            LET x == task[t] IN
            /\ x.success_count = Len(x.sent)
            /\ 0 <= x.success_count
            /\ x.success_count + x.send_errors <= x.attempts
            /\ x.attempts > 0 => x.attempts <= x.quantity
            /\ x.attempts > 0 => x.quantity = Len(x.pool))

\* the first of two sends failed with another error, the second succeeded,
\* and the handler reported 1 of 2
C19_Witness ==
    \E t \in Tasks :
        LET x == task[t] IN
        /\ x.pc = "done"
        /\ x.quantity = 2
        /\ x.send_errors = 1
        /\ x.tried = <<1, 2>>
        /\ x.success_count = 1
        /\ x.sent = <<Format(x.pool[2], Mention)>>

\* C20: a handler that has built its pool or made a send call has read the
\* bot's role in the chat, in this run and before, and found administrator or
\* owner; when the role read is lower, or get_chat_member raises
\* ChatAdminRequired or another error, the handler ends with nothing sent and
\* nothing posted.
C20_RoleBeforeSend ==
    \A t \in Tasks :
        LET x == task[t] IN
        /\ (x.attempts > 0 \/ x.pool # <<>> \/ x.pc \in {"send", "pause", "flood"})
                => x.role \in {"administrator", "owner"}
        /\ x.role \in {"member", "admin_required", "error"} =>
                /\ x.pc = "done"
                /\ x.abort = "not_admin"
                /\ x.pool = <<>>
                /\ NoSends(x)
                /\ x.warn_posts = 0
                /\ x.pm_replies = 0
        /\ x.role \in {"none"} \cup MemberResults

\* an accepted command with a valid quantity and templates configured ended
\* without a send because the bot is a plain member
C20_Witness ==
    \E t \in Tasks :
        LET x == task[t] IN
        /\ ChecksPass(x)
        /\ QuantityOk(x)
        /\ config.spam_messages # <<>>
        /\ x.role = "member"
        /\ x.pc = "done"
        /\ NoSends(x)

-----------------------------------------------------------------------------
(* BotConfig: the command string and the template list *)

\* list.pop(index), index counted from 0
ListPop(s, index) == SubSeq(s, 1, index) \o SubSeq(s, index + 2, Len(s))

\* the spam_command setter: a missing leading "/" is put in front
set_spam_command(cfg, command) ==
    [cfg EXCEPT !.spam_command =
        IF StartsWith(command, <<"/">>) THEN command ELSE <<"/">> \o command]

\* the spam_messages setter
set_spam_messages(cfg, messages) == [cfg EXCEPT !.spam_messages = messages]

add_spam_message(cfg, message) ==
    IF message \notin Range(cfg.spam_messages)
    THEN set_spam_messages(cfg, Append(cfg.spam_messages, message))
    ELSE cfg

remove_spam_message(cfg, index) ==
    IF 0 <= index /\ index < Len(cfg.spam_messages)
    THEN set_spam_messages(cfg, ListPop(cfg.spam_messages, index))
    ELSE cfg

-----------------------------------------------------------------------------
(* The owner's commands on the command string and the template list *)

set_command_command(sender, arg) ==
    /\ UNCHANGED <<pool_in, pool_out>>
    /\ IF ~is_owner(config, sender)
       THEN reply' = Reply(sender, "owner_only", 0, <<>>)
            /\ UNCHANGED <<config, current_spam_command>>
       ELSE IF arg = None
       THEN reply' = Reply(sender, "usage", 0, <<>>)
            /\ UNCHANGED <<config, current_spam_command>>
       ELSE /\ config' = set_spam_command(config, arg[1])
            /\ current_spam_command' = config'.spam_command
            /\ reply' = Reply(sender, "command_updated", 0, config'.spam_command)

\* words is message.command[1:]
add_message_command(sender, words) ==
    LET new_message == Join(words) IN
    /\ UNCHANGED <<current_spam_command, pool_in, pool_out>>
    /\ IF ~is_owner(config, sender)
       THEN reply' = Reply(sender, "owner_only", 0, <<>>) /\ UNCHANGED config
       ELSE IF words = <<>>
       THEN reply' = Reply(sender, "usage", 0, <<>>) /\ UNCHANGED config
       ELSE IF new_message \in Range(config.spam_messages)
       THEN reply' = Reply(sender, "message_exists", 0, <<>>) /\ UNCHANGED config
       ELSE /\ config' = add_spam_message(config, new_message)
            /\ reply' = Reply(sender, "message_added", Len(config'.spam_messages), new_message)

delete_message_command(sender, arg) ==
    LET parsed == ParseInt(arg[1])
        index == parsed.val - 1
    IN
    /\ UNCHANGED <<current_spam_command, pool_in, pool_out>>
    /\ IF ~is_owner(config, sender)
       THEN reply' = Reply(sender, "owner_only", 0, <<>>) /\ UNCHANGED config
       ELSE IF arg = None
       THEN reply' = Reply(sender,
                           IF config.spam_messages = <<>> THEN "no_messages" ELSE "usage",
                           0, <<>>)
            /\ UNCHANGED config
       ELSE IF ~parsed.ok
       THEN reply' = Reply(sender, "index_not_number", 0, <<>>) /\ UNCHANGED config
       ELSE IF index < 0 \/ index >= Len(config.spam_messages)
       THEN reply' = Reply(sender, "invalid_index", 0, <<>>) /\ UNCHANGED config
       ELSE /\ config' = remove_spam_message(config, index)
            /\ reply' = Reply(sender, "message_deleted", Len(config'.spam_messages),
                              config.spam_messages[index + 1])

clear_messages_command(sender) ==
    /\ UNCHANGED <<current_spam_command, pool_in, pool_out>>
    /\ IF ~is_owner(config, sender)
       THEN reply' = Reply(sender, "owner_only", 0, <<>>) /\ UNCHANGED config
       ELSE IF config.spam_messages = <<>>
       THEN reply' = Reply(sender, "nothing_to_clear", 0, <<>>) /\ UNCHANGED config
       ELSE /\ config' = set_spam_messages(config, <<DefaultMessage>>)
            /\ reply' = Reply(sender, "messages_cleared", 0, <<>>)

-----------------------------------------------------------------------------
(* Every owner command, sent by the owner or by another account, while        *)
(* trigger messages are handled                                               *)

\* the words given to /addmsg: none, or the words of one template
MessageWords == {<<>>, <<<<"Hi">>, <<"{mention}">>>>}

\* the argument of /delmsg: absent, the first template, no number, no index
IndexArgs == {None, Some(IntToWord(1)), Some(<<"x">>), Some(IntToWord(0))}

\* the argument of /setcmd: absent, a word without and one with the "/"
CommandArgs == {None, Some(<<"p">>), Some(<<"/", "s">>)}

AdminAddUser ==
    /\ UNCHANGED task
    /\ \E sender \in Senders : add_user_command(sender, Some(IntToWord(LiveAccount)), NoLookup)

AdminRemoveUser ==
    /\ UNCHANGED task
    /\ \E sender \in Senders : remove_user_command(sender, Some(IntToWord(LiveAccount)), NoLookup)

AdminGenerateSecret ==
    /\ UNCHANGED task
    /\ \E sender \in Senders :
           /\ generate_secret_command(sender, Some(IntToWord(LiveAccount)), NoLookup)
           /\ reply'.kind = "generated" => reply'.code = LiveCode

AdminRevokeSecret ==
    /\ UNCHANGED task
    /\ \E sender \in Senders : revoke_secret_command(sender, Some(LiveCode))

AdminAddChat ==
    /\ UNCHANGED task
    /\ \E sender \in Senders : add_chat_command(sender, Some(IntToWord(SoloChat)), NoLookup)

AdminRemoveChat ==
    /\ UNCHANGED task
    /\ \E sender \in Senders : remove_chat_command(sender, Some(IntToWord(SoloChat)), NoLookup)

AdminSetCommand ==
    /\ UNCHANGED task
    /\ \E sender \in Senders, arg \in CommandArgs : set_command_command(sender, arg)

AdminAddMessage ==
    /\ UNCHANGED task
    /\ \E sender \in Senders, words \in MessageWords : add_message_command(sender, words)

AdminDeleteMessage ==
    /\ UNCHANGED task
    /\ \E sender \in Senders, arg \in IndexArgs : delete_message_command(sender, arg)

AdminClearMessages ==
    /\ UNCHANGED task
    /\ \E sender \in Senders : clear_messages_command(sender)

\* in the group: a complete command for one message from the account, and the
\* text of an owner command from the owner
AdminMessages ==
    {[text |-> Join(<<<<"/", "s">>, LiveCode, <<"7">>, IntToWord(1)>>),
      chat |-> [id |-> SoloChat, type |-> "group"], from_user |-> Some(LiveAccount)],
     [text |-> <<"/", "c", "l", "r", "m", "s", "g">>,
      chat |-> [id |-> SoloChat, type |-> "group"], from_user |-> Some(OWNER_ID)]}

InitAdmin ==
    /\ config = BotConfigInit(DEFAULT_CONFIG)
    /\ current_spam_command = config.spam_command
    /\ reply = NoReply
    /\ task = [t \in Tasks |-> IdleTask]
    /\ pool_in = [messages |-> <<>>, quantity |-> 0]
    /\ pool_out = None

NextAdmin ==
    \/ AdminAddUser
    \/ AdminRemoveUser
    \/ AdminGenerateSecret
    \/ AdminRevokeSecret
    \/ AdminAddChat
    \/ AdminRemoveChat
    \/ AdminSetCommand
    \/ AdminAddMessage
    \/ AdminDeleteMessage
    \/ AdminClearMessages
    \/ \E t \in SoloTasks : Gate(t, AdminMessages)
    \/ \E t \in SoloTasks : DeleteTrigger(t)
    \/ \E t \in SoloTasks : WarnReply(t)
    \/ \E t \in SoloTasks : WarnDelete(t)
    \/ \E t \in SoloTasks : GetTargetUser(t)
    \/ \E t \in SoloTasks : GetChatMember(t)
    \/ \E t \in SoloTasks : Send(t)
    \/ \E t \in SoloTasks : Pause(t)
    \/ \E t \in SoloTasks : FloodDone(t)
    \/ \E t \in SoloTasks : Finish(t)
    \/ Advance

SpecAdmin == InitAdmin /\ [][NextAdmin]_vars

-----------------------------------------------------------------------------
(* The template commands while complete commands of the account are handled,  *)
(* once the owner has authorized the account and the chat and issued the code *)

\* a command for two messages for each kind of target
TemplateMessages ==
    {[text |-> Join(<<<<"/", "s">>, LiveCode, g, IntToWord(2)>>),
      chat |-> [id |-> SoloChat, type |-> "group"], from_user |-> Some(LiveAccount)] :
        g \in TargetWords}

InitTemplates ==
    /\ config = generate_secret_code(
                    add_authorized_chat(
                        add_authorized_user(BotConfigInit(DEFAULT_CONFIG), LiveAccount),
                        SoloChat),
                    LiveAccount, LiveCode)
    /\ current_spam_command = config.spam_command
    /\ reply = NoReply
    /\ task = [t \in Tasks |-> IdleTask]
    /\ pool_in = [messages |-> <<>>, quantity |-> 0]
    /\ pool_out = None

NextTemplates ==
    \/ AdminAddMessage
    \/ AdminDeleteMessage
    \/ AdminClearMessages
    \/ \E t \in SoloTasks : Gate(t, TemplateMessages)
    \/ \E t \in SoloTasks : DeleteTrigger(t)
    \/ \E t \in SoloTasks : ResolveTarget(t)
    \/ \E t \in SoloTasks : GetTargetUser(t)
    \/ \E t \in SoloTasks : GetChatMember(t)
    \/ \E t \in SoloTasks : Send(t)
    \/ \E t \in SoloTasks : Pause(t)
    \/ \E t \in SoloTasks : FloodDone(t)
    \/ \E t \in SoloTasks : Finish(t)
    \/ Advance

SpecTemplates == InitTemplates /\ [][NextTemplates]_vars

-----------------------------------------------------------------------------
(* Claims about silent aborts, errors and cleanup *)

\* the third field is a number that is no account id
ZeroTarget(x) ==
    /\ IsNumeric(Fields(x)[3])
    /\ ParseInt(Fields(x)[3]).val = 0

\* nothing was posted to the chat
Quiet(x) == x.warn = "none" /\ x.warn_posts = 0 /\ x.pm_replies = 0

\* C21: an accepted command whose target cannot be resolved, or that finds
\* the template list empty, ends without a send and without a message to the
\* chat, and a pool is only ever built from a template list that is not empty
C21_SilentAbort ==
    /\ [][\A t \in SoloTasks :
            LET x == task[t]
                y == task'[t]
            IN /\ (x.pc = "get_member" /\ y.pc # "get_member"
                        /\ config.spam_messages = <<>>)
                    => (y.pc = "done" /\ y.abort \in {"not_admin", "no_messages"})
               /\ (x.pc = "get_member" /\ y.pc # "get_member"
                        /\ config.spam_messages = <<>> /\ RoleElevated(y.role))
                    => y.abort = "no_messages"
               /\ (y.pool # x.pool /\ y.pool # <<>>) => Len(config.spam_messages) > 0
               /\ (x.pc = "resolve" /\ y.abort = "target") => y.pc = "done"]_vars
    /\ [](\A t \in SoloTasks :
            LET x == task[t] IN
            x.outcome = "accepted" =>
                /\ ZeroTarget(x) =>
                        /\ x.pc \in {"del_accept", "done"}
                        /\ x.pc = "done" => x.abort = "target"
                        /\ NoSends(x) /\ Quiet(x)
                /\ x.abort \in {"target", "no_messages"} =>
                        /\ x.pc = "done"
                        /\ NoSends(x) /\ Quiet(x)
                        /\ x.pool = <<>>)

\* the owner has deleted the last template and an accepted command, with its
\* target resolved and the bot an administrator, has ended without a send
C21_Witness ==
    /\ reply.kind = "message_deleted"
    /\ config.spam_messages = <<>>
    /\ \E t \in SoloTasks :
        /\ task[t].outcome = "accepted"
        /\ task[t].pc = "done"
        /\ task[t].abort = "no_messages"
        /\ RoleElevated(task[t].role)
        /\ task[t].target_id \in TargetIds
        /\ NoSends(task[t])

\* C22: no error raised by a platform call made while a trigger message of a
\* group is handled (deleting the trigger, posting or deleting the warning,
\* resolving the target, fetching its profile, reading the bot's role,
\* sending) leaves the handler uncaught
C22_NoEscape ==
    \A t \in SoloTasks : InGroup(task[t]) => task[t].pc # "crashed"

\* the handler is suspended in the deletion of the trigger message
InDeletion(x) ==
    x.pc \in {"del_chat", "del_short", "del_code", "del_mismatch", "del_unauth", "del_accept"}

Rejections == {"invalid_code", "mismatch", "unauthorized"}

\* C23: whether the deletion of the trigger message succeeds or fails, the
\* handler goes on the same way: a rejection posts its warning and later
\* deletes it, an accepted command goes on to its dispatch and attempts as
\* many sends as it asked for
C23_DeletionFailureHarmless ==
    /\ [][\A t \in SoloTasks :
            LET x == task[t]
                y == task'[t]
            IN (InDeletion(x) /\ y.pc # x.pc) =>
                /\ y.del_calls = x.del_calls + 1
                /\ y.outcome = x.outcome
                /\ x.pc \in {"del_code", "del_mismatch", "del_unauth"} => y.pc = "warn_reply"
                /\ x.pc = "del_accept" =>
                    /\ y.pc \in {"resolve", "get_users", "done"}
                    /\ (y.pc = "done") = (~QuantityOk(x) \/ ZeroTarget(x))]_vars
    /\ [](\A t \in SoloTasks :
            LET x == task[t] IN
            (x.pc = "done" /\ x.del_calls = 1) =>
                /\ x.outcome \in Rejections =>
                        x.warn_posts = 1 /\ x.warn_del_calls = 1 /\ NoSends(x)
                /\ (x.outcome = "accepted" /\ x.abort = "none") =>
                        x.attempts = QuantityOf(x))

\* the deletion of an accepted command failed, and both messages asked for
\* were sent
C23_Witness ==
    \E t \in SoloTasks :
        /\ task[t].outcome = "accepted"
        /\ task[t].del_calls = 1
        /\ task[t].trig = "present"
        /\ task[t].pc = "done"
        /\ task[t].attempts = 2
        /\ task[t].success_count = 2

-----------------------------------------------------------------------------
(* The BotConfig methods called directly, with any argument *)

\* what the last call returned: nothing, or the bool of revoke_secret_code
Returned(ret, code) == Reply(0, IF ret THEN "true" ELSE "false", 0, code)

CallAddUser ==
    /\ \E user_id \in Accounts : config' = add_authorized_user(config, user_id)
    /\ reply' = NoReply
    /\ UNCHANGED <<current_spam_command, task, pool_in, pool_out>>

CallRemoveUser ==
    /\ \E user_id \in Accounts : config' = remove_authorized_user(config, user_id)
    /\ reply' = NoReply
    /\ UNCHANGED <<current_spam_command, task, pool_in, pool_out>>

CallAddChat ==
    /\ \E chat_id \in GroupIds : config' = add_authorized_chat(config, chat_id)
    /\ reply' = NoReply
    /\ UNCHANGED <<current_spam_command, task, pool_in, pool_out>>

CallRemoveChat ==
    /\ \E chat_id \in GroupIds : config' = remove_authorized_chat(config, chat_id)
    /\ reply' = NoReply
    /\ UNCHANGED <<current_spam_command, task, pool_in, pool_out>>

CallGenerate ==
    /\ \E user_id \in Accounts, code \in FreshCodes(config) :
            config' = generate_secret_code(config, user_id, code)
    /\ reply' = NoReply
    /\ UNCHANGED <<current_spam_command, task, pool_in, pool_out>>

CallRevoke ==
    /\ \E code \in Tokens :
        LET r == revoke_secret_code(config, code) IN
        /\ config' = r.cfg
        /\ reply' = Returned(r.ret, code)
    /\ UNCHANGED <<current_spam_command, task, pool_in, pool_out>>

NextCalls ==
    \/ CallAddUser
    \/ CallRemoveUser
    \/ CallAddChat
    \/ CallRemoveChat
    \/ CallGenerate
    \/ CallRevoke

SpecCalls == InitRegistry /\ [][NextCalls]_vars

-----------------------------------------------------------------------------
(* Claims about the BotConfig methods *)

\* the bindings of d other than the one of code k are those of e
SameOthers(d, e, k) ==
    /\ DOMAIN d \ {k} = DOMAIN e \ {k}
    /\ \A c \in DOMAIN d \ {k} : d[c] = e[c]

\* C24: revoke of a token in the table returns true and removes exactly that
\* binding; revoke of a token not in the table returns false and changes
\* nothing, so a second revoke of the same token returns false; the bindings
\* of the other tokens stay as they are
C24_RevokeExact ==
    /\ \A code \in Tokens :
        LET codes == config.user_secret_codes
            r == revoke_secret_code(config, code)
            again == revoke_secret_code(r.cfg, code)
        IN /\ r.ret = (code \in DOMAIN codes)
           /\ code \notin DOMAIN r.cfg.user_secret_codes
           /\ SameOthers(codes, r.cfg.user_secret_codes, code)
           /\ r.cfg = [config EXCEPT !.user_secret_codes = r.cfg.user_secret_codes]
           /\ code \notin DOMAIN codes => r.cfg = config
           /\ again.ret = FALSE
           /\ again.cfg = r.cfg
    /\ reply.kind = "true" => reply.code \notin DOMAIN config.user_secret_codes

\* a revoke has just returned true, and another token bound to the same
\* account is still in the table
C24_Witness ==
    /\ reply.kind = "true"
    /\ \E c \in DOMAIN config.user_secret_codes :
        c # reply.code /\ config.user_secret_codes[c] = OWNER_ID + 1
    /\ \A c \in DOMAIN config.user_secret_codes :
        config.user_secret_codes[c] = OWNER_ID + 1

NoDuplicates(s) == \A i, j \in DOMAIN s : i # j => s[i] # s[j]

\* cfg and d are the same but for the list of accounts, or of chats
SameButUsers(cfg, d) == d = [cfg EXCEPT !.authorized_users = d.authorized_users]

SameButChats(cfg, d) == d = [cfg EXCEPT !.authorized_chats = d.authorized_chats]

\* C25: add_authorized_user adds an id only when it is neither the owner nor
\* in the list, remove_authorized_user removes one only when it is in the
\* list and not the owner, add_authorized_chat and remove_authorized_chat add
\* and remove only when absent and present; each is idempotent, and lists
\* that start without a duplicate never hold one
C25_IdempotentLedger ==
    LET users == config.authorized_users
        chats == config.authorized_chats
    IN
    /\ NoDuplicates(users)
    /\ NoDuplicates(chats)
    /\ \A u \in Accounts :
        LET a == add_authorized_user(config, u)
            r == remove_authorized_user(config, u)
        IN /\ SameButUsers(config, a) /\ SameButUsers(config, r)
           /\ (u = OWNER_ID \/ u \in Range(users)) => a = config
           /\ (u # OWNER_ID /\ u \notin Range(users)) =>
                /\ Range(a.authorized_users) = Range(users) \cup {u}
                /\ Len(a.authorized_users) = Len(users) + 1
           /\ (u = OWNER_ID \/ u \notin Range(users)) => r = config
           /\ (u # OWNER_ID /\ u \in Range(users)) =>
                /\ Range(r.authorized_users) = Range(users) \ {u}
                /\ Len(r.authorized_users) = Len(users) - 1
           /\ add_authorized_user(a, u) = a
           /\ remove_authorized_user(r, u) = r
    /\ \A c \in GroupIds :
        LET a == add_authorized_chat(config, c)
            r == remove_authorized_chat(config, c)
        IN /\ SameButChats(config, a) /\ SameButChats(config, r)
           /\ c \in Range(chats) => a = config
           /\ c \notin Range(chats) =>
                /\ Range(a.authorized_chats) = Range(chats) \cup {c}
                /\ Len(a.authorized_chats) = Len(chats) + 1
           /\ c \notin Range(chats) => r = config
           /\ c \in Range(chats) =>
                /\ Range(r.authorized_chats) = Range(chats) \ {c}
                /\ Len(r.authorized_chats) = Len(chats) - 1
           /\ add_authorized_chat(a, c) = a
           /\ remove_authorized_chat(r, c) = r

\* every account and every chat has been added: a further add of any of them
\* finds it present
C25_Witness ==
    /\ Range(config.authorized_users) = Accounts
    /\ Range(config.authorized_chats) = GroupIds
    /\ Len(config.authorized_users) = Cardinality(Accounts)
    /\ Len(config.authorized_chats) = Cardinality(GroupIds)

-----------------------------------------------------------------------------
(* Claims about the owner's commands and the handling of trigger messages *)

\* the replies of the commands that have written the configuration
WritingReplies ==
    {"authorized", "removed", "generated", "revoked", "chat_authorized", "chat_removed",
     "command_updated", "message_added", "message_deleted", "messages_cleared"}

\* C26: the token table, the authorized accounts, the authorized chats, the
\* command string and the template list change only in a step of an owner
\* command that answers the owner; a command of another sender and every step
\* of the handling of a trigger message leave them as they are
C26_OnlyOwnerWrites ==
    [][(config' # config \/ current_spam_command' # current_spam_command) =>
            /\ reply'.to = OWNER_ID
            /\ reply'.kind \in WritingReplies
            /\ task' = task
            /\ config'.owner_id = config.owner_id]_vars

\* the owner has changed each of the five, and the last command, sent by
\* another account, was refused
C26_Witness ==
    /\ reply.to = OWNER_ID + 1
    /\ reply.kind = "owner_only"
    /\ LiveAccount \in Range(config.authorized_users)
    /\ SoloChat \in Range(config.authorized_chats)
    /\ LiveCode \in DOMAIN config.user_secret_codes
    /\ current_spam_command = <<"/", "p">>
    /\ Len(config.spam_messages) = 2

-----------------------------------------------------------------------------
(* Two commands of the account handled at the same time, once the owner has   *)
(* authorized the account and the chat and issued the code                    *)

\* a complete command for two messages
PairMessages ==
    {[text |-> Join(<<<<"/", "s">>, LiveCode, <<"7">>, IntToWord(2)>>),
      chat |-> [id |-> SoloChat, type |-> "group"], from_user |-> Some(LiveAccount)]}

NextPair ==
    \/ \E t \in Tasks : Gate(t, PairMessages)
    \/ \E t \in Tasks : DeleteTrigger(t)
    \/ \E t \in Tasks : GetTargetUser(t)
    \/ \E t \in Tasks : GetChatMember(t)
    \/ \E t \in Tasks : Send(t)
    \/ \E t \in Tasks : Pause(t)
    \/ \E t \in Tasks : FloodDone(t)
    \/ \E t \in Tasks : Finish(t)
    \/ Advance

SpecPair == InitTemplates /\ [][NextPair]_vars

-----------------------------------------------------------------------------
(* Claims about concurrent runs *)

\* a run without its clocks
Progress(x) == [x EXCEPT !.timer = 0, !.warn_age = 0, !.flood_age = 0]

InLoop(x) == x.pc \in {"send", "pause", "flood"}

\* C27: one run attempts its pool items one after the other in pool order,
\* the next attempt starting only once the one before, and the flood-wait
\* that follows it, is over; a step of one run leaves the other run's
\* attempts, sends and success count as they are
C27_SequentialSends ==
    /\ [][\A t \in Tasks :
            LET x == task[t]
                y == task'[t]
            IN /\ Len(y.tried) > Len(x.tried) =>
                    /\ x.pc = "send"
                    /\ y.tried = Append(x.tried, x.i)
                    /\ y.pc = "send" => y.i = x.i + 1
               /\ (y.pc = "send" /\ (x.pc # "send" \/ y.i # x.i)) =>
                    \/ x.pc = "get_member" /\ y.i = 1 /\ y.tried = <<>>
                    \/ x.pc \in {"send", "pause"} /\ y.i = x.i + 1
                    \/ x.pc = "flood" /\ x.timer = 0 /\ x.flood_age = x.flood_wait
                            /\ y.i = x.i + 1
               /\ (x.pc = "flood" /\ x.timer > 0) =>
                    /\ y.pc = "flood"
                    /\ Progress(y) = Progress(x)
               /\ Progress(y) # Progress(x) =>
                    \A u \in Tasks \ {t} : task'[u] = task[u]]_vars
    /\ [](\A t \in Tasks :
            LET x == task[t] IN
            /\ \A k \in DOMAIN x.tried : x.tried[k] = k
            /\ x.attempts = Len(x.tried)
            /\ x.success_count = Len(x.sent)
            /\ x.success_count <= x.attempts
            /\ InLoop(x) => x.i = Len(x.tried) + (IF x.pc = "send" THEN 1 ELSE 0)
            /\ \A k \in DOMAIN x.sent :
                \E j \in DOMAIN x.tried : x.sent[k] = Format(x.pool[x.tried[j]], Mention))

\* both runs are in their loops: one has sent its first item and waits for
\* its second send, the other has sent both of its items in the meantime
C27_Witness ==
    \E t, u \in Tasks :
        /\ t # u
        /\ task[t].pc = "send" /\ task[t].i = 2 /\ task[t].success_count = 1
        /\ task[u].pc = "pause" /\ task[u].i = 2 /\ task[u].success_count = 2

-----------------------------------------------------------------------------
(* One command at a time, with every platform call returning and every sleep  *)
(* ending: the event loop resumes a coroutine whose awaited call has finished *)

\* a complete command with the code the owner issued, and one with another
FairMessages ==
    {[text |-> Join(<<<<"/", "s">>, c, <<"7">>, IntToWord(2)>>),
      chat |-> [id |-> SoloChat, type |-> "group"], from_user |-> Some(LiveAccount)] :
        c \in CodeWords}

NextFair ==
    \/ \E t \in SoloTasks : Gate(t, FairMessages)
    \/ \E t \in SoloTasks : DeleteTrigger(t)
    \/ \E t \in SoloTasks : WarnReply(t)
    \/ \E t \in SoloTasks : WarnDelete(t)
    \/ \E t \in SoloTasks : GetTargetUser(t)
    \/ \E t \in SoloTasks : GetChatMember(t)
    \/ \E t \in SoloTasks : Send(t)
    \/ \E t \in SoloTasks : Pause(t)
    \/ \E t \in SoloTasks : FloodDone(t)
    \/ \E t \in SoloTasks : Finish(t)
    \/ Advance

\* no fairness on Gate: a message need not arrive
Fairness ==
    /\ \A t \in SoloTasks : WF_vars(DeleteTrigger(t))
    /\ \A t \in SoloTasks : WF_vars(WarnReply(t))
    /\ \A t \in SoloTasks : WF_vars(WarnDelete(t))
    /\ \A t \in SoloTasks : WF_vars(GetTargetUser(t))
    /\ \A t \in SoloTasks : WF_vars(GetChatMember(t))
    /\ \A t \in SoloTasks : WF_vars(Send(t))
    /\ \A t \in SoloTasks : WF_vars(Pause(t))
    /\ \A t \in SoloTasks : WF_vars(FloodDone(t))
    /\ \A t \in SoloTasks : WF_vars(Finish(t))
    /\ WF_vars(Advance)

SpecFair == InitTemplates /\ [][NextFair]_vars /\ Fairness

-----------------------------------------------------------------------------
(* Claims about termination *)

\* the loop is over and the count of successes is reported
Reported(x) ==
    /\ x.pc = "done"
    /\ x.outcome = "accepted"
    /\ x.abort \in {"none", "write_forbidden"}
    /\ x.success_count <= x.quantity

\* C28: with every platform call returning and every sleep ending, a run that
\* has entered its send loop reaches the report of its success count,
\* whatever its sends answer; the handler of a rejected command ends, and
\* once its warning is posted it ends after the delayed deletion of the
\* warning
C28_Terminates ==
    \A t \in SoloTasks :
        /\ InLoop(task[t]) ~> Reported(task[t])
        /\ (task[t].pc = "warn_sleep") ~>
                (task[t].pc = "done" /\ task[t].warn_del_calls = 1
                    /\ task[t].warn_age = WarnDelay)
        /\ (task[t].outcome \in Rejections) ~> (task[t].pc \in {"done", "crashed"})
        /\ (task[t].pc # "idle") ~> (task[t].pc = "idle")

\* a loop that met a flood-wait and a success has reported
C28_Witness ==
    \E t \in SoloTasks :
        /\ Reported(task[t])
        /\ task[t].abort = "none"
        /\ task[t].attempts = 2
        /\ task[t].success_count = 1
        /\ task[t].send_errors = 0

\* C29: the code, the account and the chat are checked when the gate runs and
\* not again: an owner command that revokes the code, removes the account or
\* removes the chat while a run is in its send loop leaves the run as it is,
\* and the run goes on to attempt every item of its pool
C29_GateTimeOnly ==
    /\ [][\A t \in SoloTasks :
            LET x == task[t]
                y == task'[t]
            IN /\ (InLoop(x) /\ config' # config) => y = x
               /\ (InLoop(x) /\ y.pc = "done") =>
                    \/ y.abort = "write_forbidden"
                    \/ y.abort = "none" /\ Len(y.tried) = Len(x.pool)]_vars
    /\ [](\A t \in SoloTasks :
            LET x == task[t] IN
            (x.outcome = "accepted" /\ x.pool # <<>>) =>
                /\ Len(x.pool) = x.quantity
                /\ x.abort \in {"none", "write_forbidden"}
                /\ (x.pc = "done" /\ x.abort = "none") =>
                        x.tried = [k \in 1..x.quantity |-> k])

\* the second send of an accepted command is under way although the code is
\* revoked, the account removed and the chat removed
C29_Witness ==
    \E t \in SoloTasks :
        /\ task[t].outcome = "accepted"
        /\ task[t].pc = "send"
        /\ task[t].i = 2
        /\ task[t].success_count = 1
        /\ LiveCode \notin DOMAIN config.user_secret_codes
        /\ LiveAccount \notin Range(config.authorized_users)
        /\ SoloChat \notin Range(config.authorized_chats)

-----------------------------------------------------------------------------
(* Two owner commands handled at the same time: a handler given a handle is   *)
(* suspended in the identity lookup before it reads the registry, and every   *)
(* handler is suspended in its reply after it has written it                  *)

CommandNames ==
    [add |-> <<"/", "a", "d", "d">>,
     remove |-> <<"/", "r", "e", "m", "o", "v", "e">>,
     gensecret |-> <<"/", "g", "e", "n", "s", "e", "c", "r", "e", "t">>,
     revokesecret |-> <<"/", "r", "e", "v", "o", "k", "e", "s", "e", "c", "r", "e", "t">>,
     addchat |-> <<"/", "a", "d", "d", "c", "h", "a", "t">>,
     removechat |-> <<"/", "r", "e", "m", "o", "v", "e", "c", "h", "a", "t">>,
     addmsg |-> <<"/", "a", "d", "d", "m", "s", "g">>,
     delmsg |-> <<"/", "d", "e", "l", "m", "s", "g">>]

\* message.command: the command name and its arguments
CommandWords(m) == Split(m.text)

CommandArg(m) == IF Len(CommandWords(m)) >= 2 THEN Some(CommandWords(m)[2]) ELSE None

\* the commands that resolve an account, and those that resolve a chat
UserCommands == {CommandNames.add, CommandNames.remove, CommandNames.gensecret}

ChatCommands == {CommandNames.addchat, CommandNames.removechat}

\* the handler asks the platform for a handle before it reads the registry
AwaitsLookup(m) ==
    /\ CommandWords(m)[1] \in UserCommands \cup ChatCommands
    /\ is_owner(config, m.from_user[1])
    /\ CommandArg(m) # None
    /\ ~IsNumeric(CommandArg(m)[1])

\* the rest of the handler of m, with the platform's answer where it asked
RunCommand(m, lookup) ==
    LET name == CommandWords(m)[1]
        sender == m.from_user[1]
        arg == CommandArg(m)
    IN
    \/ name = CommandNames.add /\ add_user_command(sender, arg, lookup)
    \/ name = CommandNames.remove /\ remove_user_command(sender, arg, lookup)
    \/ name = CommandNames.gensecret /\ generate_secret_command(sender, arg, lookup)
    \/ name = CommandNames.revokesecret /\ revoke_secret_command(sender, arg)
    \/ name = CommandNames.addchat /\ add_chat_command(sender, arg, lookup)
    \/ name = CommandNames.removechat /\ remove_chat_command(sender, arg, lookup)
    \/ name = CommandNames.addmsg /\ add_message_command(sender, Tail(CommandWords(m)))
    \/ name = CommandNames.delmsg /\ delete_message_command(sender, arg)

\* a command arrives and its handler runs to its first suspension
AdminGate(t, inbox) ==
    /\ task[t].pc = "idle"
    /\ \E m \in inbox :
        IF AwaitsLookup(m)
        THEN /\ task' = [task EXCEPT ![t] = [IdleTask EXCEPT !.pc = "adm_lookup", !.msg = m]]
             /\ UNCHANGED <<config, current_spam_command, reply, pool_in, pool_out>>
        ELSE /\ RunCommand(m, NoLookup)
             /\ task' = [task EXCEPT ![t] =
                            [IdleTask EXCEPT !.pc = "adm_reply", !.msg = m, !.answer = reply']]

\* app.get_users / app.get_chat returns and the handler runs to its reply
AdminLookup(t) ==
    LET m == task[t].msg IN
    /\ task[t].pc = "adm_lookup"
    /\ \E lookup \in Lookups(IF CommandWords(m)[1] \in UserCommands
                             THEN HandleUsers ELSE HandleChats) :
            RunCommand(m, lookup)
    /\ task' = [task EXCEPT ![t] = [@ EXCEPT !.pc = "adm_reply", !.answer = reply']]

\* message.reply_text returns or raises: the handler is over
AdminReply(t) ==
    /\ task[t].pc = "adm_reply"
    /\ task' = [task EXCEPT ![t] = [@ EXCEPT !.pc = "adm_done"]]
    /\ UNCHANGED <<config, current_spam_command, reply, pool_in, pool_out>>

\* the owner's commands, in the owner's private chat
RaceMessages ==
    {[text |-> Join(w), chat |-> [id |-> OWNER_ID, type |-> "private"],
      from_user |-> Some(OWNER_ID)] :
        w \in {<<CommandNames.add, <<"@", "u">>>>,
               <<CommandNames.remove, <<"@", "u">>>>,
               <<CommandNames.gensecret, <<"@", "u">>>>,
               <<CommandNames.revokesecret, LiveCode>>,
               <<CommandNames.addchat, <<"@", "c">>>>,
               <<CommandNames.addchat, IntToWord(SoloChat + 1)>>,
               <<CommandNames.removechat, <<"@", "c">>>>,
               <<CommandNames.addmsg, <<"Hi">>, <<"{mention}">>>>,
               <<CommandNames.delmsg, IntToWord(1)>>}}

\* a first start, or the account and the chat authorized and the code issued
RaceConfigs ==
    {BotConfigInit(DEFAULT_CONFIG),
     generate_secret_code(
        add_authorized_chat(
            add_authorized_user(BotConfigInit(DEFAULT_CONFIG), LiveAccount), SoloChat),
        LiveAccount, LiveCode)}

InitRace ==
    /\ config \in RaceConfigs
    /\ current_spam_command = config.spam_command
    /\ reply = NoReply
    /\ task = [t \in Tasks |-> IdleTask]
    /\ pool_in = [messages |-> <<>>, quantity |-> 0]
    /\ pool_out = None

\* each of the two handlers handles one command
NextRace ==
    \/ \E t \in Tasks : AdminGate(t, RaceMessages)
    \/ \E t \in Tasks : AdminLookup(t)
    \/ \E t \in Tasks : AdminReply(t)

SpecRace == InitRace /\ [][NextRace]_vars

-----------------------------------------------------------------------------
(* Claims about concurrent owner commands *)

\* the handler has written the registry and answers, or has answered
Completed(x) == x.pc \in {"adm_reply", "adm_done"}

\* what the answer a says was done is so in cfg
Holds(a, cfg) ==
    /\ a.kind = "authorized" => a.id \in Range(cfg.authorized_users)
    /\ a.kind = "removed" => a.id \notin Range(cfg.authorized_users)
    /\ a.kind = "generated" =>
            /\ a.code \in DOMAIN cfg.user_secret_codes
            /\ cfg.user_secret_codes[a.code] = a.id
    /\ a.kind = "revoked" => a.code \notin DOMAIN cfg.user_secret_codes
    /\ a.kind = "chat_authorized" => a.id \in Range(cfg.authorized_chats)
    /\ a.kind = "chat_removed" => a.id \notin Range(cfg.authorized_chats)
    /\ a.kind = "message_added" => a.code \in Range(cfg.spam_messages)
    /\ a.kind = "message_deleted" => a.code \notin Range(cfg.spam_messages)

\* the command answered by b takes back what the one answered by a did
Undoes(b, a) ==
    \/ a.kind = "authorized" /\ b.kind = "removed" /\ b.id = a.id
    \/ a.kind = "removed" /\ b.kind = "authorized" /\ b.id = a.id
    \/ a.kind = "generated" /\ b.kind = "revoked" /\ b.code = a.code
    \/ a.kind = "revoked" /\ b.kind = "generated" /\ b.code = a.code
    \/ a.kind = "chat_authorized" /\ b.kind = "chat_removed" /\ b.id = a.id
    \/ a.kind = "chat_removed" /\ b.kind = "chat_authorized" /\ b.id = a.id
    \/ a.kind = "message_added" /\ b.kind = "message_deleted" /\ b.code = a.code
    \/ a.kind = "message_deleted" /\ b.kind = "message_added" /\ b.code = a.code

\* C30: a handler checks and writes the registry in one step, with no other
\* handler's step in between, and once two commands handled at the same time
\* have both written, the registry holds what each of them answers it did,
\* unless the other command is the one that takes it back
C30_NoLostUpdate ==
    /\ [][config' # config =>
            \E t \in Tasks :
                /\ task[t].pc \in {"idle", "adm_lookup"}
                /\ task'[t].pc = "adm_reply"
                /\ task'[t].answer = reply'
                /\ \A u \in Tasks \ {t} : task'[u] = task[u]]_vars
    /\ [](\A t, u \in Tasks :
            (t # u /\ Completed(task[t])) =>
                \/ Holds(task[t].answer, config)
                \/ Completed(task[u]) /\ Undoes(task[u].answer, task[t].answer))

\* both commands were given a handle and have answered: one has authorized
\* the chat, the other has issued a code, and the registry holds both
C30_Witness ==
    \E t, u \in Tasks :
        /\ task[t].pc = "adm_done" /\ task[u].pc = "adm_done"
        /\ ~IsNumeric(CommandArg(task[t].msg)[1])
        /\ ~IsNumeric(CommandArg(task[u].msg)[1])
        /\ task[t].answer.kind = "chat_authorized"
        /\ task[u].answer.kind = "generated"
        /\ Holds(task[t].answer, config)
        /\ Holds(task[u].answer, config)

\* ---------------------------------------------------------------------------
\* C31: the pool is a snapshot of the template list
\* ---------------------------------------------------------------------------

\* C31: the pool is built from the template list in the step in which
\* get_chat_member returns, with no await in between; while the send loop runs,
\* /addmsg, /delmsg and /clrmsg leave the run as it is, the pool never changes,
\* every send carries the pool's item at the loop's position, a run that is
\* not stopped by ChatWriteForbidden attempts every item of its pool, and a run
\* whose sends all succeed has sent the whole pool in order
C31_PoolSnapshot ==
    /\ [][\A t \in SoloTasks :
            LET x == task[t]
                y == task'[t]
            IN /\ (x.pc = "get_member" /\ InLoop(y)) =>
                    /\ y.pool \in MessagePools(config.spam_messages, x.quantity)
                    /\ Len(y.pool) = x.quantity
               /\ (InLoop(x) /\ config'.spam_messages # config.spam_messages) => y = x
               /\ (InLoop(x) /\ y.pc # "idle") => y.pool = x.pool
               /\ (InLoop(x) /\ y.sent # x.sent) =>
                    /\ x.pc = "send"
                    /\ y.sent = Append(x.sent, Format(x.pool[x.i], Mention))
               /\ (InLoop(x) /\ y.pc = "done") =>
                    \/ y.abort = "write_forbidden"
                    \/ y.abort = "none" /\ y.tried = [k \in 1..Len(x.pool) |-> k]]_vars
    /\ [](\A t \in SoloTasks :
            LET x == task[t] IN
            (x.outcome = "accepted" /\ x.pool # <<>>) =>
                /\ \A k \in DOMAIN x.sent : \E j \in DOMAIN x.pool :
                        x.sent[k] = Format(x.pool[j], Mention)
                /\ (x.pc = "done" /\ x.success_count = Len(x.pool)) =>
                        x.sent = [k \in DOMAIN x.pool |-> Format(x.pool[k], Mention)])

\* both sends of a run are done, the second after the template list was
\* emptied, and both carry the template the pool was built from
C31_Witness ==
    \E t \in SoloTasks :
        /\ task[t].pc = "pause"
        /\ task[t].i = 2
        /\ Len(task[t].sent) = 2
        /\ task[t].pool = <<DefaultMessage, DefaultMessage>>
        /\ config.spam_messages = <<>>

\* ---------------------------------------------------------------------------
\* C32: removing an account keeps its codes
\* ---------------------------------------------------------------------------

\* C32: a step that changes the list of authorized accounts leaves the code
\* table as it is; a well-formed trigger whose code is in the table and whose
\* sender is anonymous or the code's account is accepted if that account is in
\* the list when the gate runs and rejected as unauthorized if it is not; so a
\* code whose account was removed is rejected, and accepted again once the
\* account is added back
C32_DeauthorizeKeepsTokens ==
    [][/\ config'.authorized_users # config.authorized_users =>
            config'.user_secret_codes = config.user_secret_codes
       /\ \A t \in SoloTasks :
            LET x == task[t]
                y == task'[t]
            IN (/\ x.pc = "idle"
                /\ WellFormedTrigger(y)
                /\ TokenKnown(y)
                /\ y.msg.from_user \in {None, Some(Bound(y))}) =>
                    /\ y.code_uid = Some(Bound(y))
                    /\ y.outcome = (IF Bound(y) \in Range(config.authorized_users)
                                    THEN "accepted" ELSE "unauthorized")]_vars

\* the account was removed, its code then rejected by the gate, and the account
\* added back by the owner's latest command: the code is still in the table,
\* bound to the account
C32_Witness ==
    \E t \in SoloTasks :
        /\ task[t].outcome = "unauthorized"
        /\ task[t].pc = "warn_sleep"
        /\ task[t].code_uid = Some(LiveAccount)
        /\ reply.kind = "authorized"
        /\ reply.id = LiveAccount
        /\ LiveAccount \in Range(config.authorized_users)
        /\ LiveCode \in DOMAIN config.user_secret_codes
        /\ config.user_secret_codes[LiveCode] = LiveAccount

\* ---------------------------------------------------------------------------
\* C33: the trigger match is a prefix test
\* ---------------------------------------------------------------------------

\* the text begins with the command, with or without its "/", and its first
\* word is not the command
MerePrefix(x) ==
    /\ x.pc # "idle"
    /\ BeginsWithCommand(x.msg.text)
    /\ Fields(x)[1] \notin {current_spam_command, LStrip(current_spam_command, "/")}

\* the claim as stated: such a message is deleted in an authorized group and,
\* with at least 4 words, answered with the unknown-token warning
C33_Original ==
    \A t \in Tasks :
        LET x == task[t] IN
        (MerePrefix(x) /\ InGroup(x) /\ x.pc \in {"done", "crashed"}) =>
            /\ x.del_calls = 1
            /\ ChatListed(x) =>
                /\ x.trig = "deleted"
                /\ Len(Fields(x)) >= 4 =>
                    /\ x.outcome = "invalid_code"
                    /\ x.warn_posts = 1

\* C33: a text that begins with the command and whose first word is not the
\* command enters the gate like the command itself: in a group that is not
\* authorized its deletion is attempted once and nothing else happens; in an
\* authorized group its deletion is attempted once and, with at least 4 words,
\* its second word is looked up as a code: an unknown one leads to the warning
\* post, a known one to the sender and account checks and, when they pass, to
\* acceptance
C33_BarePrefix ==
    \A t \in Tasks :
        LET x == task[t]
            begun == x.pc \notin {"del_chat", "del_short", "del_code", "del_mismatch",
                                  "del_unauth", "del_accept"}
        IN
        (MerePrefix(x) /\ InGroup(x)) =>
            /\ x.outcome # "ignored"
            /\ x.del_calls = (IF begun THEN 1 ELSE 0)
            /\ ~ChatListed(x) =>
                /\ x.outcome = "chat_unauthorized"
                /\ x.pc \in {"del_chat", "done"}
                /\ x.warn_posts = 0
                /\ NoSends(x)
            /\ (ChatListed(x) /\ Len(Fields(x)) < 4) =>
                /\ x.outcome = "incomplete"
                /\ x.pc \in {"del_short", "done"}
                /\ x.warn_posts = 0
                /\ NoSends(x)
            /\ (ChatListed(x) /\ Len(Fields(x)) >= 4 /\ ~TokenKnown(x)) =>
                /\ x.outcome = "invalid_code"
                /\ x.pc \in {"del_code", "warn_reply", "warn_sleep", "done", "crashed"}
                /\ x.warn_posts = (IF x.pc \in {"warn_sleep", "done"} THEN 1 ELSE 0)
                /\ NoSends(x)
            /\ (ChatListed(x) /\ Len(Fields(x)) >= 4 /\ TokenKnown(x)) =>
                x.outcome =
                    (IF x.msg.from_user \notin {None, Some(Bound(x))} THEN "mismatch"
                     ELSE IF Bound(x) \notin Range(config.authorized_users)
                     THEN "unauthorized"
                     ELSE "accepted")

\* a text whose first word only begins with the command, with a known code as
\* its second word, was accepted and a message was sent
C33_Witness ==
    \E t \in Tasks :
        /\ MerePrefix(task[t])
        /\ task[t].outcome = "accepted"
        /\ Len(task[t].sent) >= 1

====
